---- MODULE Spec2Model ----
(***************************************************************************)
(* Scoring and percentile-colour pipeline of the ChargePilot repository:   *)
(* web/lib/scoring.ts, web/lib/geojson.ts, web/app/api/stations/route.ts,  *)
(* web/components/MapView.tsx and video/src/lib/theme.ts.                  *)
(*                                                                         *)
(* Numbers.  A JavaScript number that stands for a real quantity (a score, *)
(* a percentile, a noise term) is an integer count of thousandths (Unit);  *)
(* products and quotients are rounded down to the next thousandth.         *)
(* Latitudes and longitudes are integers in units of 1e-4 degree.  The     *)
(* transcendental steps (haversine + exp, the sine hashes, the logistic,   *)
(* Math.pow) are tables of the values the source formulas give.            *)
(*                                                                         *)
(* JavaScript values that may be null, undefined or NaN are tagged         *)
(* records: Num(n), Str(s), Arr(s), Obj(fields), Null, Undefined, NaN.       *)
(***************************************************************************)
EXTENDS Integers, Sequences, FiniteSets, TLC

VARIABLES
    fn,             \* the operation that ran last ("none" before any)
    args,           \* arguments of the pure function under check
    ret,            \* its return value
    ocmRaw,         \* the station feature collection (ocm_austin.geojson)
    response,       \* what GET /api/stations answered last
    stationsCache,  \* theme.ts: let _stationsCache
    loaded,         \* what loadStations() returned last
    home,           \* page.tsx: the state of Home and of its stations fetch
    mapView         \* MapView.tsx: props, refs and the layers on the map

vars == <<fn, args, ret, ocmRaw, response, stationsCache, loaded, home, mapView>>

pureVars == <<args, ret>>
pipelineVars == <<ocmRaw, response, stationsCache, loaded>>
uiVars == <<home, mapView>>

-----------------------------------------------------------------------------
(* JavaScript values *)

Null == [t |-> "null"]
Undefined == [t |-> "undefined"]
NaN == [t |-> "NaN"]
Num(n) == [t |-> "number", v |-> n]
Arr(s) == [t |-> "array", v |-> s]
Str(s) == [t |-> "string", v |-> s]

\* x != null  (true of neither null nor undefined)
NotNullish(x) == x.t \notin {"null", "undefined"}

\* a ?? b
Coalesce(a, b) == IF NotNullish(a) THEN a ELSE b

Pending == [t |-> "pending"]
TypeError == [t |-> "TypeError"]

Unit == 10 * 10 * 10

Min(a, b) == IF a < b THEN a ELSE b
Max(a, b) == IF a > b THEN a ELSE b

RECURSIVE SeqSum(_)
SeqSum(s) == IF s = <<>> THEN 0 ELSE s[1] + SeqSum(Tail(s))

RECURSIVE SeqMax(_, _)
SeqMax(s, start) == IF s = <<>> THEN start ELSE SeqMax(Tail(s), Max(start, s[1]))

Map(s, Op(_)) == [i \in 1..Len(s) |-> Op(s[i])]

-----------------------------------------------------------------------------
(* Bounds of the model *)

MaxPoints == 3        \* largest explicit NumberOfPoints tried
MaxConnections == 2   \* longest Connections list tried
MaxQuantity == 2      \* largest per-connection Quantity tried

-----------------------------------------------------------------------------
(* web/lib/scoring.ts : deriveChargerCount *)

\* (sum, c) => sum + (c.Quantity ?? 1), folded from 0
QuantitySum(conns) ==
    SeqSum(Map(conns, LAMBDA c : Coalesce(c.Quantity, Num(1)).v))

\* `||` instead of `??`: a Quantity of 0 is counted as 1
QuantitySumOr(conns) ==
    SeqSum(Map(conns, LAMBDA c : IF NotNullish(c.Quantity) /\ c.Quantity.v # 0
                                  THEN c.Quantity.v ELSE 1))

\* station.Connections?.length  is truthy
HasLength(conns) == NotNullish(conns) /\ Len(conns.v) > 0

\* truthiness test of NumberOfPoints instead of != null: an explicit 0 falls through
deriveChargerCountTruthy(station) ==
    IF NotNullish(station.NumberOfPoints) /\ station.NumberOfPoints.v # 0
        THEN station.NumberOfPoints.v
    ELSE IF HasLength(station.Connections)
        THEN QuantitySum(station.Connections.v)
    ELSE 1

\* the fold counting a Quantity of 0 as 1
deriveChargerCountOr(station) ==
    IF NotNullish(station.NumberOfPoints) THEN station.NumberOfPoints.v
    ELSE IF HasLength(station.Connections)
        THEN QuantitySumOr(station.Connections.v)
    ELSE 1

deriveChargerCount(station) ==
    IF NotNullish(station.NumberOfPoints) THEN station.NumberOfPoints.v
    ELSE IF HasLength(station.Connections)
        THEN QuantitySum(station.Connections.v)
    ELSE 1

(* video/src/lib/theme.ts : deriveChargerCount(feature) *)
video_deriveChargerCount(feature) ==
    LET props == feature.properties IN
    IF NotNullish(props.NumberOfPoints) THEN props.NumberOfPoints.v
    ELSE IF HasLength(props.Connections)
        THEN QuantitySum(props.Connections.v)
    ELSE 1

-----------------------------------------------------------------------------
(* Inputs of deriveChargerCount: every explicit count, every connection list *)

Optional(S) == {Null, Undefined} \cup {Num(n) : n \in S}

SeqsUpTo(S, n) == UNION {[1..k -> S] : k \in 0..n}

ConnectionSet == [Quantity : Optional(0..MaxQuantity)]

ConnectionLists ==
    {Null, Undefined} \cup {Arr(s) : s \in SeqsUpTo(ConnectionSet, MaxConnections)}

StationInputs ==
    [NumberOfPoints : Optional(0..MaxPoints), Connections : ConnectionLists]

\* the web page not mounted
Unmounted == [t |-> "unmounted"]

IdleUi ==
    /\ home = Unmounted
    /\ mapView = Unmounted

\* the station pipeline at rest while one function is checked on its own
IdlePipeline ==
    /\ ocmRaw = <<>>
    /\ response = Pending
    /\ stationsCache = Null
    /\ loaded = Pending

InitCharger ==
    /\ fn = "none"
    /\ args \in StationInputs
    /\ ret = Pending
    /\ IdlePipeline
    /\ IdleUi

CallDeriveChargerCount ==
    /\ fn' = "deriveChargerCount"
    /\ ret' = Num(deriveChargerCount(args))
    /\ UNCHANGED <<args, pipelineVars, uiVars>>

CallVideoDeriveChargerCount ==
    /\ fn' = "video_deriveChargerCount"
    /\ ret' = Num(video_deriveChargerCount([properties |-> args]))
    /\ UNCHANGED <<args, pipelineVars, uiVars>>

NextCharger == CallDeriveChargerCount \/ CallVideoDeriveChargerCount

SpecCharger == InitCharger /\ [][NextCharger]_vars

ChargerRan == fn \in {"deriveChargerCount", "video_deriveChargerCount"}

ExplicitCount == args.NumberOfPoints
FallbackPath == ~NotNullish(args.NumberOfPoints)

(* C5: deriveChargerCount always returns an integer >= 1, for every explicit
   count and every connection list. *)
ChargerCountAtLeastOne ==
    ChargerRan => (ret.t = "number" /\ ret.v \in Int /\ ret.v >= 1)

(* C6: whenever the explicit count (NumberOfPoints) is null or absent, the
   fallback path of deriveChargerCount returns a non-zero count. *)
FallbackNeverZero ==
    (ChargerRan /\ FallbackPath) => ret.v # 0

(* C7: an explicit NumberOfPoints, the value 0 included, is returned unchanged
   whatever the Connections list holds. *)
ExplicitCountWins ==
    (ChargerRan /\ ~FallbackPath) => ret = ExplicitCount

ExplicitZeroKept ==
    /\ ChargerRan
    /\ ExplicitCount = Num(0)
    /\ HasLength(args.Connections)
    /\ ret = Num(0)

(* C8: with the explicit count null or absent, the result is the sum of the
   connections' quantities, a null or missing Quantity counting as 1; it is 1
   when the connection list is null, absent or empty. *)
NumberOfMissing(conns) ==
    Cardinality({i \in DOMAIN conns : ~NotNullish(conns[i].Quantity)})

RECURSIVE SumOfPresent(_)
SumOfPresent(conns) ==
    IF conns = <<>> THEN 0
    ELSE (IF NotNullish(conns[1].Quantity) THEN conns[1].Quantity.v ELSE 0)
         + SumOfPresent(Tail(conns))

FallbackIsQuantitySum ==
    (ChargerRan /\ FallbackPath) =>
        IF NotNullish(args.Connections) /\ args.Connections.v # <<>>
            THEN ret = Num(SumOfPresent(args.Connections.v)
                           + NumberOfMissing(args.Connections.v))
            ELSE ret = Num(1)

FallbackSummed ==
    /\ ChargerRan
    /\ FallbackPath
    /\ NotNullish(args.Connections)
    /\ Len(args.Connections.v) = 2
    /\ args.Connections.v[1].Quantity = Null
    /\ args.Connections.v[2].Quantity = Num(2)
    /\ ret = Num(3)

-----------------------------------------------------------------------------
(* web/lib/scoring.ts : simulateTrafficScore, synthOptimizationScore *)

GridStep == 50     \* spacing of the noise, traffic and capacity values tried
ScoreStep == 100   \* spacing of the raw demand sums tried

\* DEMAND_CENTERS: the eight weights, in thousandths
DEMAND_WEIGHTS == <<1000, 850, 750, 700, 650, 600, 550, 500>>

\* every term weight * exp(-dist / 2.6) lies in (0, weight]
MaxDemand == SeqSum(DEMAND_WEIGHTS)

\* 1 / (1 + Math.exp(-2.2 * (score - 0.7))) at score = 0.0, 0.1, ..., 5.7
LogisticTable ==
    << 177, 211, 250, 293, 341, 392, 445, 500, 555, 608, 659, 707,
       750, 789, 823, 853, 879, 900, 918, 933, 946, 956, 964, 971,
       977, 981, 985, 988, 990, 992, 994, 995, 996, 997, 997, 998,
       998, 999, 999, 999, 999, 999, 1000, 1000, 1000, 1000, 1000, 1000,
       1000, 1000, 1000, 1000, 1000, 1000, 1000, 1000, 1000, 1000 >>

\* the logistic squash, interpolated between the tabulated tenths
Logistic(score) ==
    LET k == score \div 100
        lo == LogisticTable[k + 1]
        hi == LogisticTable[k + 2]
    IN lo + ((hi - lo) * (score % 100)) \div 100

\* Math.pow(noise, 0.35) at noise = 0.00, 0.01, ..., 1.00
PowTable ==
    << 0, 200, 254, 293, 324, 350, 374, 394, 413, 431, 447, 462,
       476, 490, 503, 515, 527, 538, 549, 559, 569, 579, 589, 598,
       607, 616, 624, 632, 640, 648, 656, 664, 671, 678, 686, 693,
       699, 706, 713, 719, 726, 732, 738, 744, 750, 756, 762, 768,
       773, 779, 785, 790, 795, 801, 806, 811, 816, 821, 826, 831,
       836, 841, 846, 851, 855, 860, 865, 869, 874, 878, 883, 887,
       891, 896, 900, 904, 908, 913, 917, 921, 925, 929, 933, 937,
       941, 945, 949, 952, 956, 960, 964, 968, 971, 975, 979, 982,
       986, 989, 993, 996, 1000 >>

Pow035(noise) ==
    LET k == noise \div 10
        lo == PowTable[k + 1]
        hi == PowTable[k + 2]
    IN lo + ((hi - lo) * (noise % 10)) \div 10

clamp01(n) == Max(0, Min(Unit, n))

\* simulateTrafficScore with the clamp left out
trafficBandUnclamped(score, noise) ==
    LET jitter == ((noise - 500) * 250) \div Unit
        normalized == Logistic(score)
    IN 150 + ((normalized + jitter) * 800) \div Unit

\* simulateTrafficScore after the loop: score is the demand sum, noise the
\* fractional part of the sine hash
trafficBand(score, noise) ==
    LET jitter == ((noise - 500) * 250) \div Unit
        normalized == Logistic(score)
        withJitter == Max(0, Min(Unit, normalized + jitter))
    IN 150 + (withJitter * 800) \div Unit

(* video/src/lib/theme.ts : simulateTrafficScore after the loop *)
video_trafficBand(score, noise) ==
    LET jitter == ((noise - 500) * 250) \div Unit
        normalized == Logistic(score)
    IN 150 + (Max(0, Min(Unit, normalized + jitter)) * 800) \div Unit

\* synthOptimizationScore returning base * 0.75 + signal unclamped
synthBandUnclamped(noise, trafficScore, normStations) ==
    LET base == Pow035(noise)
        signal == (200 * trafficScore) \div Unit + (150 * normStations) \div Unit
    IN (base * 750) \div Unit + signal

\* synthOptimizationScore after the hash: noise is the fractional part of the
\* second sine hash
synthBand(noise, trafficScore, normStations) ==
    LET base == Pow035(noise)
        signal == (200 * trafficScore) \div Unit + (150 * normStations) \div Unit
    IN Max(0, Min(Unit, (base * 750) \div Unit + signal))

(* video/src/lib/theme.ts : synthOptimizationScore after the hash *)
video_synthBand(noise, trafficScore, normStations) ==
    LET base == Pow035(noise)
        signal == (200 * trafficScore) \div Unit + (150 * normStations) \div Unit
    IN Max(0, Min(Unit, (base * 750) \div Unit + signal))

\* noise = seed - Math.floor(seed) lies in [0, 1)
NoiseGrid == {n \in 0..(Unit - 1) : n % GridStep = 0} \cup {Unit - 1}
UnitGrid == {n \in 0..Unit : n % GridStep = 0} \cup {Unit}
ScoreGrid == {s \in 0..MaxDemand : s % ScoreStep = 0} \cup {MaxDemand}

InitTraffic ==
    /\ fn = "none"
    /\ args \in [score : ScoreGrid, noise : NoiseGrid]
    /\ ret = Pending
    /\ IdlePipeline
    /\ IdleUi

CallSimulateTrafficScore ==
    /\ fn' = "simulateTrafficScore"
    /\ ret' = Num(trafficBand(args.score, args.noise))
    /\ UNCHANGED <<args, pipelineVars, uiVars>>

CallVideoSimulateTrafficScore ==
    /\ fn' = "video_simulateTrafficScore"
    /\ ret' = Num(video_trafficBand(args.score, args.noise))
    /\ UNCHANGED <<args, pipelineVars, uiVars>>

NextTraffic == CallSimulateTrafficScore \/ CallVideoSimulateTrafficScore

SpecTraffic == InitTraffic /\ [][NextTraffic]_vars

TrafficRan == fn \in {"simulateTrafficScore", "video_simulateTrafficScore"}

InitSynth ==
    /\ fn = "none"
    /\ args \in [noise : NoiseGrid, trafficScore : UnitGrid, normStations : UnitGrid]
    /\ ret = Pending
    /\ IdlePipeline
    /\ IdleUi

CallSynthOptimizationScore ==
    /\ fn' = "synthOptimizationScore"
    /\ ret' = Num(synthBand(args.noise, args.trafficScore, args.normStations))
    /\ UNCHANGED <<args, pipelineVars, uiVars>>

CallVideoSynthOptimizationScore ==
    /\ fn' = "video_synthOptimizationScore"
    /\ ret' = Num(video_synthBand(args.noise, args.trafficScore, args.normStations))
    /\ UNCHANGED <<args, pipelineVars, uiVars>>

NextSynth == CallSynthOptimizationScore \/ CallVideoSynthOptimizationScore

SpecSynth == InitSynth /\ [][NextSynth]_vars

SynthRan == fn \in {"synthOptimizationScore", "video_synthOptimizationScore"}

\* noise^0.35 * 0.75 + 0.2 * trafficScore + 0.15 * normalizedCapacity
SynthSum ==
    (Pow035(args.noise) * 750) \div Unit
        + (200 * args.trafficScore) \div Unit
        + (150 * args.normStations) \div Unit

(* C4: every synthesized score lies in [0, 1]: synthOptimizationScore returns
   the sum noise^0.35 * 0.75 + 0.2 * trafficScore + 0.15 * normalizedCapacity
   cut off at 0 and at 1. *)
SynthScoreInUnitInterval ==
    SynthRan =>
        /\ 0 <= ret.v /\ ret.v <= Unit
        /\ ret.v = (IF SynthSum > Unit THEN Unit ELSE IF SynthSum < 0 THEN 0 ELSE SynthSum)

\* the weighted sum exceeds 1 and the score is cut off at 1
SynthUpperClampActs ==
    /\ SynthRan
    /\ SynthSum > Unit
    /\ ret = Num(Unit)

-----------------------------------------------------------------------------
(* web/components/MapView.tsx : the percentile band and the colour gradient *)

BandStep == 125    \* spacing of the scores and percentile bounds tried

\* a string is the sequence of its characters
OPT_COLORS ==
    [good |-> <<"#", "0", "0", "e", "6", "8", "a">>,
     mid  |-> <<"#", "f", "f", "b", "0", "2", "0">>,
     bad  |-> <<"#", "f", "f", "3", "8", "6", "0">>]

HexDigits ==
    <<"0", "1", "2", "3", "4", "5", "6", "7", "8", "9", "a", "b", "c", "d", "e", "f">>

HexValue(c) == (CHOOSE i \in 1..16 : HexDigits[i] = c) - 1

\* parseInt(s, 16) of a string of hex digits
RECURSIVE parseInt16(_)
parseInt16(s) ==
    IF s = <<>> THEN 0
    ELSE 16 * parseInt16(SubSeq(s, 1, Len(s) - 1)) + HexValue(s[Len(s)])

hexToRgb(hex) ==
    LET value == Tail(hex)       \* hex.replace('#', '')
    IN [r |-> parseInt16(SubSeq(value, 1, 2)),
        g |-> parseInt16(SubSeq(value, 3, 4)),
        b |-> parseInt16(SubSeq(value, 5, 6))]

\* n.toString(16) for an integer n
RECURSIVE toString16(_)
toString16(n) ==
    IF n < 0 THEN <<"-">> \o toString16(0 - n)
    ELSE IF n < 16 THEN <<HexDigits[n + 1]>>
    ELSE toString16(n \div 16) \o <<HexDigits[(n % 16) + 1]>>

\* s.padStart(2, '0')
padStart2(s) == IF Len(s) < 2 THEN <<"0">> \o s ELSE s

\* Math.floor in the place of Math.round
roundDown(v) == v \div Unit

\* Math.round of a value given in thousandths: halves go up
round(v) == (v + Unit \div 2) \div Unit

toHex(v) == padStart2(toString16(round(v)))

rgbToHex(r, g, b) == <<"#">> \o toHex(r) \o toHex(g) \o toHex(b)

\* a + (b - a) * t for channel values a, b and t in thousandths; the result
\* is in thousandths of a channel step
lerp(a, b, t) == a * Unit + (b - a) * t

lerpColor(a, b, t) ==
    LET c1 == hexToRgb(a)
        c2 == hexToRgb(b)
    IN rgbToHex(lerp(c1.r, c2.r, t), lerp(c1.g, c2.g, t), lerp(c1.b, c2.b, t))

\* the two end tests taken in the other order (high end first)
utilizationToScoreHighFirst(utilization, p20, p50, p80) ==
    IF utilization >= p80 THEN Unit
    ELSE IF utilization <= p20 THEN 0
    ELSE IF utilization <= p50
        THEN clamp01(((utilization - p20) * Unit) \div (p50 - p20))
    ELSE clamp01(500 + ((((utilization - p50) * Unit) \div (p80 - p50)) * 500) \div Unit)

utilizationToScore(utilization, p20, p50, p80) ==
    IF utilization <= p20 THEN 0
    ELSE IF utilization >= p80 THEN Unit
    ELSE IF utilization <= p50
        THEN clamp01(((utilization - p20) * Unit) \div (p50 - p20))
    ELSE clamp01(500 + ((((utilization - p50) * Unit) \div (p80 - p50)) * 500) \div Unit)

\* a mapper that answers the bad stop when the bounds coincide
utilizationToColorBadFallback(utilization, p20, p50, p80) ==
    IF p20 = p80 THEN OPT_COLORS.bad
    ELSE LET score == utilizationToScore(utilization, p20, p50, p80) IN
         IF score >= 500
             THEN lerpColor(OPT_COLORS.mid, OPT_COLORS.good, ((score - 500) * Unit) \div 500)
             ELSE lerpColor(OPT_COLORS.bad, OPT_COLORS.mid, (score * Unit) \div 500)

utilizationToColor(utilization, p20, p50, p80) ==
    LET score == utilizationToScore(utilization, p20, p50, p80) IN
    IF score >= 500
        THEN lerpColor(OPT_COLORS.mid, OPT_COLORS.good, ((score - 500) * Unit) \div 500)
        ELSE lerpColor(OPT_COLORS.bad, OPT_COLORS.mid, (score * Unit) \div 500)

BandGrid == {n \in 0..Unit : n % BandStep = 0} \cup {Unit}

\* two scores a <= b and percentile bounds pLow <= pMid <= pHigh
BandInputs ==
    {x \in [a : BandGrid, b : BandGrid, pLow : BandGrid, pMid : BandGrid, pHigh : BandGrid] :
        x.a <= x.b /\ x.pLow <= x.pMid /\ x.pMid <= x.pHigh}

InitBand ==
    /\ fn = "none"
    /\ args \in BandInputs
    /\ ret = Pending
    /\ IdlePipeline
    /\ IdleUi

\* the band position of args.a
CallUtilizationToScore ==
    /\ fn' = "utilizationToScore"
    /\ ret' = Num(utilizationToScore(args.a, args.pLow, args.pMid, args.pHigh))
    /\ UNCHANGED <<args, pipelineVars, uiVars>>

\* the colours of args.a and of args.b under the same bounds
CallUtilizationToColor ==
    /\ fn' = "utilizationToColor"
    /\ ret' = [a |-> utilizationToColor(args.a, args.pLow, args.pMid, args.pHigh),
               b |-> utilizationToColor(args.b, args.pLow, args.pMid, args.pHigh)]
    /\ UNCHANGED <<args, pipelineVars, uiVars>>

NextBand == CallUtilizationToScore \/ CallUtilizationToColor

SpecBand == InitBand /\ [][NextBand]_vars

(* C9: for pLow <= pMid <= pHigh the band position rises linearly from 0 at
   pLow to 0.5 at pMid and from 0.5 at pMid to 1 at pHigh; a value equal to
   pMid maps to 0.5 and every value strictly between pLow and pMid maps
   below 0.5. *)
BandPositionRamp ==
    (fn = "utilizationToScore") =>
        LET v == args.a
            lo == args.pLow
            mid == args.pMid
            hi == args.pHigh
        IN /\ (lo < v /\ v <= mid /\ v < hi) =>
                  ret.v = ((v - lo) * 500) \div (mid - lo)
           /\ (mid < v /\ v < hi) =>
                  ret.v = 500 + ((v - mid) * 500) \div (hi - mid)
           /\ (lo < mid /\ mid < hi /\ v = mid) => ret.v = 500
           /\ (lo < v /\ v < mid) => ret.v < 500

(* C10: under the same bounds pLow <= pMid <= pHigh, for two scores a <= b
   the green channel of utilizationToColor(b) is not lower than the green
   channel of utilizationToColor(a). *)
GreenChannelMonotone ==
    (fn = "utilizationToColor") =>
        hexToRgb(ret.b).g >= hexToRgb(ret.a).g

(* C11: for bounds pLow <= pMid <= pHigh the band position is 0 whenever the
   value is at or below pLow and 1 whenever the value is at or above pHigh. *)
BandEndsAtZeroAndOne ==
    (fn = "utilizationToScore") =>
        /\ (args.a <= args.pLow) => ret = Num(0)
        /\ (args.a >= args.pHigh) => ret = Num(Unit)

(* C11, amended: the band position is 0 whenever the value is at or below
   pLow, and 1 whenever the value is at or above pHigh and above pLow; the
   low test runs first, so a value equal to both ends maps to 0. *)
BandEndsLowFirst ==
    (fn = "utilizationToScore") =>
        /\ (args.a <= args.pLow) => ret = Num(0)
        /\ (args.a >= args.pHigh /\ args.a > args.pLow) => ret = Num(Unit)

\* a value equal to both ends has been mapped, and it went to 0
BandEndsCoincide ==
    /\ fn = "utilizationToScore"
    /\ args.a = args.pLow
    /\ args.a = args.pHigh
    /\ ret = Num(0)

-----------------------------------------------------------------------------
(* web/components/MapView.tsx and web/app/page.tsx : percentile *)

MaxScores == 3          \* longest score list tried
PercentileStep == 100   \* spacing of the fractions p tried, in thousandths

\* (sorted.length - 1) * p, in thousandths of an index
ScaledIndex(sorted, p) == (Len(sorted) - 1) * p

\* Math.floor and Math.ceil of a non-negative number of thousandths
floor(idx) == idx \div Unit
ceil(idx) == (idx + Unit - 1) \div Unit

\* sorted[lo] without the interpolation step
percentileLowerRank(sorted, p) ==
    IF Len(sorted) = 0 THEN 0
    ELSE sorted[floor(ScaledIndex(sorted, p)) + 1]

\* MapView.tsx; sequences are indexed from 1, arrays from 0
percentile(sorted, p) ==
    IF Len(sorted) = 0 THEN 0
    ELSE LET idx == ScaledIndex(sorted, p)
             lo == floor(idx)
             hi == ceil(idx)
         IN IF lo = hi THEN sorted[lo + 1]
            ELSE LET t == idx - lo * Unit
                 IN lerp(sorted[lo + 1], sorted[hi + 1], t) \div Unit

\* page.tsx: the closure over the sorted scores of the page
page_percentile(scores, p) ==
    IF Len(scores) = 0 THEN 0
    ELSE LET idx == ScaledIndex(scores, p)
             lo == floor(idx)
             hi == ceil(idx)
         IN IF lo = hi THEN scores[lo + 1]
            ELSE LET t == idx - lo * Unit
                 IN scores[lo + 1] + ((scores[hi + 1] - scores[lo + 1]) * t) \div Unit

IsAscending(s) == \A i \in 1..(Len(s) - 1) : s[i] <= s[i + 1]

\* the list of the worked example, [1, 2, 3, 4, 5]
ExampleList == <<Unit, 2 * Unit, 3 * Unit, 4 * Unit, 5 * Unit>>

SortedLists == {s \in SeqsUpTo(BandGrid, MaxScores) : IsAscending(s)} \cup {ExampleList}

FractionGrid == {n \in 0..Unit : n % PercentileStep = 0} \cup {Unit}

InitPercentile ==
    /\ fn = "none"
    /\ args \in [sorted : SortedLists, p : FractionGrid]
    /\ ret = Pending
    /\ IdlePipeline
    /\ IdleUi

CallPercentile ==
    /\ fn' = "percentile"
    /\ ret' = Num(percentile(args.sorted, args.p))
    /\ UNCHANGED <<args, pipelineVars, uiVars>>

CallPagePercentile ==
    /\ fn' = "page_percentile"
    /\ ret' = Num(page_percentile(args.sorted, args.p))
    /\ UNCHANGED <<args, pipelineVars, uiVars>>

NextPercentile == CallPercentile \/ CallPagePercentile

SpecPercentile == InitPercentile /\ [][NextPercentile]_vars

PercentileRan == fn \in {"percentile", "page_percentile"}

(* C12: on an ascending list of N >= 1 values and p in [0, 1] percentile
   returns the linear interpolation between the order statistics at
   floor((N-1)*p) and ceil((N-1)*p): p = 0 gives the minimum, p = 1 the
   maximum, and percentile([1,2,3,4,5], 0.5) = 3; on an empty list it
   returns 0 for every p. *)
PercentileInterpolates ==
    PercentileRan =>
        LET sorted == args.sorted
            N == Len(sorted)
            x == (N - 1) * args.p
            below == CHOOSE k \in 0..(N - 1) : k * Unit <= x /\ x < (k + 1) * Unit
            above == CHOOSE k \in 0..(N - 1) : (k - 1) * Unit < x /\ x <= k * Unit
        IN /\ (N = 0) => ret = Num(0)
           /\ (N >= 1) =>
                 /\ ret.v = sorted[below + 1]
                       + ((sorted[above + 1] - sorted[below + 1]) * (x - below * Unit)) \div Unit
                 /\ sorted[below + 1] <= ret.v
                 /\ ret.v <= sorted[above + 1]
                 /\ (args.p = 0) => ret.v = sorted[1]
                 /\ (args.p = Unit) => ret.v = sorted[N]
           /\ (sorted = ExampleList /\ args.p = 500) => ret = Num(3 * Unit)

\* a percentile that fell strictly between two different order statistics
PercentileBetweenRanks ==
    /\ fn = "percentile"
    /\ Len(args.sorted) >= 2
    /\ ScaledIndex(args.sorted, args.p) % Unit # 0
    /\ \E i \in 1..(Len(args.sorted) - 1) :
          args.sorted[i] < ret.v /\ ret.v < args.sorted[i + 1]

-----------------------------------------------------------------------------
(* web/components/MapView.tsx : the station-marker effect *)

MaxStations == 3   \* largest station population tried

utilizationBand(utilization, p20, p80) ==
    IF utilization <= p20 THEN "low"
    ELSE IF utilization >= p80 THEN "high"
    ELSE "mid"

RECURSIVE Insert(_, _)
Insert(x, s) ==
    IF s = <<>> THEN <<x>>
    ELSE IF x < s[1] THEN <<x>> \o s
    ELSE <<s[1]>> \o Insert(x, Tail(s))

\* Array.prototype.sort((a, b) => a - b)
RECURSIVE SortAscending(_)
SortAscending(s) ==
    IF s = <<>> THEN <<>>
    ELSE Insert(s[Len(s)], SortAscending(SubSeq(s, 1, Len(s) - 1)))

\* p10, p50 and p90 of the optimization scores of the population
PopulationBounds(scores) ==
    LET sorted == SortAscending(scores)
    IN [p10 |-> percentile(sorted, 100),
        p50 |-> percentile(sorted, 500),
        p90 |-> percentile(sorted, 900)]

\* what the effect derives for one station
MarkerOf(optimizationScore, bounds) ==
    LET band == utilizationBand(optimizationScore, bounds.p10, bounds.p90)
    IN [color |-> utilizationToColor(optimizationScore, bounds.p10, bounds.p50, bounds.p90),
        optScore |-> utilizationToScore(optimizationScore, bounds.p10, bounds.p50, bounds.p90),
        band |-> band,
        bandLabel |-> IF band = "low" THEN "Overloaded"
                      ELSE IF band = "high" THEN "Underutilized"
                      ELSE "Balanced"]

\* stations.forEach(...): one marker per station, in order
StationMarkers(scores) ==
    LET bounds == PopulationBounds(scores)
    IN [i \in 1..Len(scores) |-> MarkerOf(scores[i], bounds)]

InitMarkers ==
    /\ fn = "none"
    /\ args \in [stations : SeqsUpTo(BandGrid, MaxStations), score : BandGrid]
    /\ ret = Pending
    /\ IdlePipeline
    /\ IdleUi

\* the effect on [stations, recommendations]: the layers it leaves on the map
RenderStations ==
    /\ fn' = "renderStations"
    /\ ret' = [bounds |-> PopulationBounds(args.stations),
               layers |-> StationMarkers(args.stations)]
    /\ UNCHANGED <<args, pipelineVars, uiVars>>

\* utilizationToColor(score, p10, p50, p90) under the bounds of the population
CallUtilizationToColorOfPopulation ==
    /\ fn' = "populationColor"
    /\ LET bounds == PopulationBounds(args.stations)
       IN ret' = [bounds |-> bounds,
                  color |-> utilizationToColor(args.score, bounds.p10, bounds.p50, bounds.p90)]
    /\ UNCHANGED <<args, pipelineVars, uiVars>>

NextMarkers == RenderStations \/ CallUtilizationToColorOfPopulation

SpecMarkers == InitMarkers /\ [][NextMarkers]_vars

EmptyPopulation == args.stations = <<>>

ZeroBounds == [p10 |-> 0, p50 |-> 0, p90 |-> 0]

(* C13: with an empty score population (so pLow = pMid = pHigh = 0 from
   percentile) the colour mapper returns the bad stop colour for any score
   passed to it, and neither percentile nor the colour mapper raises. *)
EmptyPopulationGivesBadStop ==
    (EmptyPopulation /\ fn = "populationColor") =>
        /\ ret.bounds = ZeroBounds
        /\ ret.color = OPT_COLORS.bad

(* C13, amended: with an empty score population percentile returns 0 for
   p10, p50 and p90 and the marker effect leaves no layer (it passes no
   score to the colour mapper); the colour mapper called with these bounds
   returns the bad stop colour for a score of 0 and the good stop colour for
   every positive score; neither raises. *)
EmptyPopulationColours ==
    EmptyPopulation =>
        /\ (fn = "renderStations") =>
              ret = [bounds |-> ZeroBounds, layers |-> <<>>]
        /\ (fn = "populationColor") =>
              /\ ret.bounds = ZeroBounds
              /\ ret.color = IF args.score <= 0 THEN OPT_COLORS.bad ELSE OPT_COLORS.good

\* a positive score was coloured under the bounds of an empty population
EmptyPopulationPositiveScore ==
    /\ EmptyPopulation
    /\ fn = "populationColor"
    /\ args.score > 0
    /\ ret.color = OPT_COLORS.good

-----------------------------------------------------------------------------
(* The station pipeline: web (geojson.ts, route.ts, scoring.ts) and video
   (theme.ts) over the same feature collection *)

MaxFeatures == 2   \* longest feature collection tried

Infinity == [t |-> "Infinity"]
Obj(fields) == [t |-> "object"] @@ fields

\* the loop of simulateTrafficScore: the sum over DEMAND_CENTERS of
\* weight * Math.exp(-haversineKm(lat, lng, clat, clng) / 2.6)
demandSum(lat, lng) ==
    CASE lat = 302672 /\ lng = 302672 -> 0
      [] lat = 302672 /\ lng = -977431 -> 1985
      [] lat = 302672 /\ lng = 302015 -> 0
      [] lat = 302672 /\ lng = -978370 -> 152
      [] lat = -977431 /\ lng = 302672 -> 0
      [] lat = -977431 /\ lng = -977431 -> 0
      [] lat = -977431 /\ lng = 302015 -> 0
      [] lat = -977431 /\ lng = -978370 -> 0
      [] lat = 302015 /\ lng = 302672 -> 0
      [] lat = 302015 /\ lng = -977431 -> 349
      [] lat = 302015 /\ lng = 302015 -> 0
      [] lat = 302015 /\ lng = -978370 -> 145
      [] lat = -978370 /\ lng = 302672 -> 0
      [] lat = -978370 /\ lng = -977431 -> 0
      [] lat = -978370 /\ lng = 302015 -> 0
      [] lat = -978370 /\ lng = -978370 -> 0

\* seed = Math.sin(lat * 12.9898 + lng * 78.233) * 43758.5453;
\* noise = seed - Math.floor(seed)
trafficNoise(lat, lng) ==
    CASE lat = 302672 /\ lng = 302672 -> 149
      [] lat = 302672 /\ lng = -977431 -> 457
      [] lat = 302672 /\ lng = 302015 -> 415
      [] lat = 302672 /\ lng = -978370 -> 522
      [] lat = -977431 /\ lng = 302672 -> 602
      [] lat = -977431 /\ lng = -977431 -> 585
      [] lat = -977431 /\ lng = 302015 -> 375
      [] lat = -977431 /\ lng = -978370 -> 266
      [] lat = 302015 /\ lng = 302672 -> 764
      [] lat = 302015 /\ lng = -977431 -> 321
      [] lat = 302015 /\ lng = 302015 -> 16
      [] lat = 302015 /\ lng = -978370 -> 41
      [] lat = -978370 /\ lng = 302672 -> 441
      [] lat = -978370 /\ lng = -977431 -> 961
      [] lat = -978370 /\ lng = 302015 -> 431
      [] lat = -978370 /\ lng = -978370 -> 296

\* seed = Math.sin(lat * 91.123 + lng * 47.77) * 15731.743;
\* noise = seed - Math.floor(seed)
synthNoise(lat, lng) ==
    CASE lat = 302672 /\ lng = 302672 -> 313
      [] lat = 302672 /\ lng = -977431 -> 898
      [] lat = 302672 /\ lng = 302015 -> 781
      [] lat = 302672 /\ lng = -978370 -> 269
      [] lat = -977431 /\ lng = 302672 -> 515
      [] lat = -977431 /\ lng = -977431 -> 591
      [] lat = -977431 /\ lng = 302015 -> 245
      [] lat = -977431 /\ lng = -978370 -> 616
      [] lat = 302015 /\ lng = 302672 -> 208
      [] lat = 302015 /\ lng = -977431 -> 234
      [] lat = 302015 /\ lng = 302015 -> 39
      [] lat = 302015 /\ lng = -978370 -> 0
      [] lat = -978370 /\ lng = 302672 -> 301
      [] lat = -978370 /\ lng = -977431 -> 417
      [] lat = -978370 /\ lng = 302015 -> 59
      [] lat = -978370 /\ lng = -978370 -> 503

simulateTrafficScore(lat, lng) ==
    trafficBand(demandSum(lat, lng), trafficNoise(lat, lng))

synthOptimizationScore(lat, lng, trafficScore, normStations) ==
    synthBand(synthNoise(lat, lng), trafficScore, normStations)

\* (trafficScore * 100) / chargerCount, in thousandths of a percent
Utilization(trafficScore, chargerCount) ==
    IF chargerCount = 0 THEN Infinity
    ELSE Num((trafficScore * 100) \div chargerCount)

\* the status taken from the utilization ratio (the 60 / 150 rule) instead of
\* the optimization score
scoreStationByRatio(station, trafficScore, maxChargerCount) ==
    LET chargerCount == deriveChargerCount(station)
        utilization == Utilization(trafficScore, chargerCount)
        normStations ==
            IF maxChargerCount > 0 THEN (chargerCount * Unit) \div maxChargerCount ELSE 0
        optimizationScore ==
            synthOptimizationScore(station.AddressInfo.Latitude,
                                   station.AddressInfo.Longitude,
                                   trafficScore, normStations)
        status ==
            IF utilization = Infinity \/ utilization.v > 150 * Unit THEN "overloaded"
            ELSE IF utilization.v > 60 * Unit THEN "balanced"
            ELSE "underutilized"
    IN station @@ [chargerCount |-> chargerCount, trafficScore |-> trafficScore,
                   optimizationScore |-> optimizationScore,
                   utilization |-> utilization, status |-> status]

scoreStation(station, trafficScore, maxChargerCount) ==
    LET chargerCount == deriveChargerCount(station)
        utilization == Utilization(trafficScore, chargerCount)
        normStations ==
            IF maxChargerCount > 0 THEN (chargerCount * Unit) \div maxChargerCount ELSE 0
        optimizationScore ==
            synthOptimizationScore(station.AddressInfo.Latitude,
                                   station.AddressInfo.Longitude,
                                   trafficScore, normStations)
        status ==
            IF optimizationScore < 330 THEN "overloaded"
            ELSE IF optimizationScore < 660 THEN "balanced"
            ELSE "underutilized"
    IN station @@ [chargerCount |-> chargerCount, trafficScore |-> trafficScore,
                   optimizationScore |-> optimizationScore,
                   utilization |-> utilization, status |-> status]

(* web/lib/geojson.ts *)

\* f.geometry?.coordinates?.length === 2
HasTwoCoordinates(f) ==
    /\ NotNullish(f.geometry)
    /\ NotNullish(f.geometry.coordinates)
    /\ Len(f.geometry.coordinates.v) = 2

Filter(s, Test(_)) ==
    LET F[i \in 0..Len(s)] ==
            IF i = 0 THEN <<>>
            ELSE IF Test(s[i]) THEN Append(F[i - 1], s[i]) ELSE F[i - 1]
    IN F[Len(s)]

\* the spread of f.properties.AddressInfo placed after the coordinates, so
\* that the Latitude and Longitude of the property bag win
OcmStationOfBagWins(f) ==
    LET props == f.properties
        info == props.AddressInfo
    IN [ID |-> props.ID,
        NumberOfPoints |-> props.NumberOfPoints,
        Connections |-> props.Connections,
        AddressInfo |->
            [Title |-> IF NotNullish(info) THEN info.Title ELSE Undefined,
             Town |-> IF NotNullish(info) THEN info.Town ELSE Undefined,
             Latitude |-> IF NotNullish(info) THEN info.Latitude
                          ELSE f.geometry.coordinates.v[2],
             Longitude |-> IF NotNullish(info) THEN info.Longitude
                           ELSE f.geometry.coordinates.v[1]]]

\* the object literal of the map callback; f.properties is not null here
OcmStationOf(f) ==
    LET props == f.properties
        info == props.AddressInfo
    IN [ID |-> props.ID,
        NumberOfPoints |-> props.NumberOfPoints,
        Connections |-> props.Connections,
        AddressInfo |->
            [Title |-> IF NotNullish(info) THEN info.Title ELSE Undefined,
             Town |-> IF NotNullish(info) THEN info.Town ELSE Undefined,
             Latitude |-> f.geometry.coordinates.v[2],
             Longitude |-> f.geometry.coordinates.v[1]]]

\* reading f.properties.AddressInfo of a kept feature whose properties are
\* null throws
parseOcmFeatures(fc) ==
    LET kept == Filter(fc.features, HasTwoCoordinates) IN
    IF \E i \in DOMAIN kept : ~NotNullish(kept[i].properties)
        THEN TypeError
        ELSE Arr(Map(kept, OcmStationOf))

(* web/app/api/stations/route.ts *)

\* s.NumberOfPoints ?? 1, the connections left out of the maximum
InlineCountPointsOnly(s) ==
    IF NotNullish(s.NumberOfPoints) THEN s.NumberOfPoints.v
    ELSE 1

\* s.NumberOfPoints ?? (s.Connections?.reduce(...) ?? 1)
InlineCount(s) ==
    IF NotNullish(s.NumberOfPoints) THEN s.NumberOfPoints.v
    ELSE IF NotNullish(s.Connections) THEN QuantitySum(s.Connections.v)
    ELSE 1

GetHandler(raw) ==
    LET stations == parseOcmFeatures(raw) IN
    IF stations = TypeError THEN TypeError
    ELSE LET maxChargerCount == SeqMax(Map(stations.v, InlineCount), 1)
             Scored(s) ==
                 scoreStation(s,
                              simulateTrafficScore(s.AddressInfo.Latitude,
                                                   s.AddressInfo.Longitude),
                              maxChargerCount)
         IN Arr(Map(stations.v, Scored))

(* video/src/lib/theme.ts *)

\* coordinates[i], 0-based; undefined past the end
At(coordinates, i) ==
    IF i + 1 \in DOMAIN coordinates THEN Num(coordinates[i + 1]) ELSE Undefined

\* lat or lng undefined makes every product NaN
video_simulateTrafficScore(lat, lng) ==
    IF lat.t # "number" \/ lng.t # "number" THEN NaN
    ELSE Num(video_trafficBand(demandSum(lat.v, lng.v), trafficNoise(lat.v, lng.v)))

video_synthOptimizationScore(lat, lng, trafficScore, normStations) ==
    IF lat.t # "number" \/ lng.t # "number" \/ trafficScore.t # "number" THEN NaN
    ELSE Num(video_synthBand(synthNoise(lat.v, lng.v), trafficScore.v, normStations))

\* the callback of features.map in loadStations
StationPointOf(f, maxChargerCount) ==
    LET lat == At(f.geometry.coordinates.v, 1)
        lng == At(f.geometry.coordinates.v, 0)
        chargerCount == video_deriveChargerCount(f)
        trafficScore == video_simulateTrafficScore(lat, lng)
        normStations ==
            IF maxChargerCount > 0 THEN (chargerCount * Unit) \div maxChargerCount ELSE 0
        optimizationScore ==
            video_synthOptimizationScore(lat, lng, trafficScore, normStations)
        utilization ==
            IF trafficScore = NaN THEN NaN
            ELSE Utilization(trafficScore.v, chargerCount)
        \* a comparison with NaN is false
        status ==
            IF optimizationScore # NaN /\ optimizationScore.v < 330 THEN "overloaded"
            ELSE IF optimizationScore # NaN /\ optimizationScore.v < 660 THEN "balanced"
            ELSE "underutilized"
        info == f.properties.AddressInfo
    IN [lat |-> lat, lng |-> lng,
        id |-> f.properties.ID,
        \* f.properties.AddressInfo?.Title ?? ""
        title |-> IF NotNullish(info) THEN Coalesce(info.Title, Str("")) ELSE Str(""),
        \* f.properties.AddressInfo?.Town ?? "Austin"
        town |-> IF NotNullish(info) THEN Coalesce(info.Town, Str("Austin")) ELSE Str("Austin"),
        chargerCount |-> chargerCount,
        trafficScore |-> trafficScore,
        utilization |-> utilization,
        status |-> status,
        optimizationScore |-> optimizationScore]

\* loadStations with an empty cache: reading a property of null or undefined
\* (properties, geometry, coordinates) throws before the cache is assigned
ComputeStations(raw) ==
    LET features == raw.features IN
    IF \E i \in DOMAIN features : ~NotNullish(features[i].properties)
        THEN TypeError
    ELSE IF \E i \in DOMAIN features :
                \/ ~NotNullish(features[i].geometry)
                \/ ~NotNullish(features[i].geometry.coordinates)
        THEN TypeError
    ELSE LET maxChargerCount ==
                 IF features = <<>> THEN 0   \* Math.max() = -Infinity; unused
                 ELSE SeqMax(Map(features, video_deriveChargerCount),
                             video_deriveChargerCount(features[1]))
             Point(f) == StationPointOf(f, maxChargerCount)
         IN Arr(Map(features, Point))

(* The feature collections tried *)

Downtown == <<-977431, 302672>>
SouthCentral == <<-977431, 302015>>
SouthWest == <<-978370, 302015>>

Geometry(coordinates) == Obj([coordinates |-> coordinates])

Properties(id, points, connections, info) ==
    Obj([ID |-> id, NumberOfPoints |-> points, Connections |-> connections,
         AddressInfo |-> info])

DowntownInfo ==
    Obj([Title |-> Str("Downtown"), Town |-> Undefined,
         Latitude |-> 302672, Longitude |-> -977431])

PropertyBags ==
    { Properties(1, Null, Null, DowntownInfo),
      Properties(2, Num(0), Arr(<<[Quantity |-> Num(MaxQuantity)]>>), DowntownInfo),
      Properties(3, Num(MaxPoints), Null, DowntownInfo),
      Properties(4, Null, Arr(<<>>), Undefined),
      Properties(5, Undefined,
                 Arr(<<[Quantity |-> Null], [Quantity |-> Num(MaxQuantity)]>>),
                 DowntownInfo) }

WellFormedFeatures ==
    { [geometry |-> Geometry(Arr(c)), properties |-> p] :
        c \in {Downtown, SouthCentral, SouthWest}, p \in PropertyBags }

\* geometry absent, coordinates absent, one coordinate, three coordinates
MalformedFeatures ==
    { [geometry |-> g, properties |-> p] :
        g \in { Undefined, Geometry(Undefined), Geometry(Arr(<<-977431>>)),
                Geometry(Arr(<<-977431, 302672, 150>>)) },
        p \in { Properties(1, Null, Null, DowntownInfo),
                Properties(3, Num(MaxPoints), Null, DowntownInfo) } }

NullPropertyFeatures ==
    { [geometry |-> Geometry(Arr(Downtown)), properties |-> Null] }

FeaturePool == WellFormedFeatures \cup MalformedFeatures \cup NullPropertyFeatures

InitPipeline ==
    /\ fn = "none"
    /\ args = <<>>
    /\ ret = Pending
    /\ ocmRaw \in [features : SeqsUpTo(FeaturePool, MaxFeatures)]
    /\ response = Pending
    /\ stationsCache = Null
    /\ loaded = Pending
    /\ IdleUi

\* GET /api/stations: the JSON body, or the TypeError the handler throws
GET ==
    /\ fn' = "GET"
    /\ response' = GetHandler(ocmRaw)
    /\ UNCHANGED <<pureVars, ocmRaw, stationsCache, loaded, uiVars>>

loadStations ==
    /\ fn' = "loadStations"
    /\ IF stationsCache # Null
          THEN /\ loaded' = stationsCache
               /\ UNCHANGED stationsCache
          ELSE LET computed == ComputeStations(ocmRaw) IN
               /\ loaded' = computed
               /\ stationsCache' = IF computed = TypeError THEN Null ELSE computed
    /\ UNCHANGED <<pureVars, ocmRaw, response, uiVars>>

NextPipeline == GET \/ loadStations

SpecPipeline == InitPipeline /\ [][NextPipeline]_vars

BothRan == response # Pending /\ loaded # Pending

\* what the claim compares: position, coordinates, chargerCount, trafficScore,
\* optimizationScore, status
WebView(r) ==
    IF r = TypeError THEN TypeError
    ELSE Arr([i \in DOMAIN r.v |->
                [lat |-> Num(r.v[i].AddressInfo.Latitude),
                 lng |-> Num(r.v[i].AddressInfo.Longitude),
                 chargerCount |-> r.v[i].chargerCount,
                 trafficScore |-> Num(r.v[i].trafficScore),
                 optimizationScore |-> Num(r.v[i].optimizationScore),
                 status |-> r.v[i].status]])

VideoView(r) ==
    IF r = TypeError THEN TypeError
    ELSE Arr([i \in DOMAIN r.v |->
                [lat |-> r.v[i].lat,
                 lng |-> r.v[i].lng,
                 chargerCount |-> r.v[i].chargerCount,
                 trafficScore |-> r.v[i].trafficScore,
                 optimizationScore |-> r.v[i].optimizationScore,
                 status |-> r.v[i].status]])

(* C1: for the same feature collection the web path (parseOcmFeatures, GET,
   scoreStation) and the video path (loadStations) produce the same list of
   stations with the same chargerCount, trafficScore, optimizationScore and
   status. *)
PipelinesAgree ==
    BothRan => WebView(response) = VideoView(loaded)

\* the two paths do agree on collections whose features all have two
\* coordinates and a property bag
AllWellFormed ==
    \A i \in DOMAIN ocmRaw.features : ocmRaw.features[i] \in WellFormedFeatures

PipelinesAgreeOnWellFormed ==
    (BothRan /\ AllWellFormed) => WebView(response) = VideoView(loaded)

(* C2: status is a function of the composite score alone, in scoreStation and
   in loadStations: overloaded when score < 0.33, balanced when
   0.33 <= score < 0.66, underutilized when score >= 0.66. *)
BandOf(score) ==
    IF score < 330 THEN "overloaded"
    ELSE IF score >= 660 THEN "underutilized"
    ELSE "balanced"

StatusByThresholds ==
    /\ (response.t = "array") =>
          \A i \in DOMAIN response.v :
              response.v[i].status = BandOf(response.v[i].optimizationScore)
    /\ (loaded.t = "array") =>
          \A i \in DOMAIN loaded.v :
              loaded.v[i].optimizationScore.t = "number" =>
                  loaded.v[i].status = BandOf(loaded.v[i].optimizationScore.v)

\* both paths have scored an overloaded and a balanced station
StatusBandsAssigned ==
    /\ response.t = "array" /\ loaded.t = "array"
    /\ \E i, j \in DOMAIN response.v :
          /\ response.v[i].status = "overloaded"
          /\ response.v[j].status = "balanced"
    /\ \E i, j \in DOMAIN loaded.v :
          /\ loaded.v[i].status = "overloaded"
          /\ loaded.v[j].status = "balanced"

\* the features of the collection whose geometry has exactly two coordinates,
\* in input order
TwoCoordinateFeatures == SelectSeq(ocmRaw.features, HasTwoCoordinates)

AllHaveProperties ==
    \A i \in DOMAIN ocmRaw.features : NotNullish(ocmRaw.features[i].properties)

\* the web parser alone: one station per two-coordinate feature, in order
WebKeepsTwoCoordinateFeatures ==
    (AllHaveProperties /\ response # Pending) =>
        /\ response.t = "array"
        /\ Len(response.v) = Len(TwoCoordinateFeatures)
        /\ \A i \in DOMAIN response.v :
              /\ response.v[i].ID = TwoCoordinateFeatures[i].properties.ID
              /\ response.v[i].AddressInfo.Latitude
                    = TwoCoordinateFeatures[i].geometry.coordinates.v[2]
              /\ response.v[i].AddressInfo.Longitude
                    = TwoCoordinateFeatures[i].geometry.coordinates.v[1]

(* C14: ingestion produces exactly one record, in input order, for each
   feature whose geometry has exactly two coordinates and drops, without
   throwing, every feature whose geometry is missing or whose coordinate
   list does not have length 2; this holds for parseOcmFeatures (behind GET)
   and for loadStations alike.  Stated for collections whose features all
   carry a property bag. *)
IngestionKeepsTwoCoordinateFeatures ==
    /\ WebKeepsTwoCoordinateFeatures
    /\ (AllHaveProperties /\ loaded # Pending) =>
          /\ loaded.t = "array"
          /\ Len(loaded.v) = Len(TwoCoordinateFeatures)
          /\ \A i \in DOMAIN loaded.v :
                /\ loaded.v[i].id = TwoCoordinateFeatures[i].properties.ID
                /\ loaded.v[i].lat = Num(TwoCoordinateFeatures[i].geometry.coordinates.v[2])
                /\ loaded.v[i].lng = Num(TwoCoordinateFeatures[i].geometry.coordinates.v[1])

-----------------------------------------------------------------------------
(* Ingestion of the three feature collections: web/lib/geojson.ts and the
   loaders of video/src/lib/theme.ts *)

Bool(b) == [t |-> "boolean", v |-> b]

\* Number(x) for the values a property can hold here
Number(x) ==
    IF x.t = "number" THEN x
    ELSE IF x.t = "null" THEN Num(0)
    ELSE NaN

\* Boolean(x)
Boolean(x) ==
    IF x.t = "boolean" THEN x
    ELSE IF x.t = "number" THEN Bool(x.v # 0)
    ELSE IF x.t = "string" THEN Bool(x.v # "")
    ELSE Bool(FALSE)

\* the object literal of the map callback of parseRecommendations
RecommendationOf(f) ==
    LET props == f.properties
    IN [lat |-> f.geometry.coordinates.v[2],
        lng |-> f.geometry.coordinates.v[1],
        site_id |-> Coalesce(props.site_id, Str("")),
        node_weight |-> Number(Coalesce(props.node_weight, Num(0))),
        marginal_gain |->
            Number(Coalesce(props.marginal_demand_gain,
                            Coalesce(props.marginal_gain, Num(0)))),
        rank |-> IF NotNullish(props.rank) THEN Number(props.rank) ELSE Undefined,
        reasoning |-> props.reasoning]

\* reading f.properties.site_id of a kept feature whose properties are null
\* throws
parseRecommendations(fc) ==
    LET kept == Filter(fc.features, HasTwoCoordinates) IN
    IF \E i \in DOMAIN kept : ~NotNullish(kept[i].properties)
        THEN TypeError
        ELSE Arr(Map(kept, RecommendationOf))

\* the object literal of the map callback of parseClusters
ClusterOf(f) ==
    LET props == f.properties
    IN [lat |-> f.geometry.coordinates.v[2],
        lng |-> f.geometry.coordinates.v[1],
        community_id |-> Coalesce(props.community_id, Num(0)),
        is_underserved |->
            Boolean(Coalesce(props.is_underserved,
                             Coalesce(props.underserved, Bool(FALSE))))]

parseClusters(fc) ==
    LET kept == Filter(fc.features, HasTwoCoordinates) IN
    IF \E i \in DOMAIN kept : ~NotNullish(kept[i].properties)
        THEN TypeError
        ELSE Arr(Map(kept, ClusterOf))

\* f.properties.rank != null
HasRank(f) == NotNullish(f.properties.rank)

RECURSIVE InsertByRank(_, _)
InsertByRank(f, s) ==
    IF s = <<>> THEN <<f>>
    ELSE IF f.properties.rank.v < s[1].properties.rank.v THEN <<f>> \o s
    ELSE <<s[1]>> \o InsertByRank(f, Tail(s))

\* Array.prototype.sort((a, b) => a.properties.rank - b.properties.rank);
\* the sort is stable
RECURSIVE SortByRank(_)
SortByRank(s) ==
    IF s = <<>> THEN <<>>
    ELSE InsertByRank(s[Len(s)], SortByRank(SubSeq(s, 1, Len(s) - 1)))

\* the object literal of the map callback of loadRecommendations
RecommendationPointOf(f) ==
    [lat |-> At(f.geometry.coordinates.v, 1),
     lng |-> At(f.geometry.coordinates.v, 0),
     rank |-> f.properties.rank,
     site_id |-> f.properties.site_id,
     node_weight |-> f.properties.node_weight,
     marginal_gain |-> f.properties.marginal_demand_gain]

HasCoordinates(f) == NotNullish(f.geometry) /\ NotNullish(f.geometry.coordinates)

\* the ranked features in input order, without the sort
loadRecommendationsUnsorted(raw) ==
    IF \E i \in DOMAIN raw.features : ~NotNullish(raw.features[i].properties)
        THEN TypeError
    ELSE LET ranked == Filter(raw.features, HasRank) IN
         IF \E i \in DOMAIN ranked : ~HasCoordinates(ranked[i])
             THEN TypeError
             ELSE Arr(Map(ranked, RecommendationPointOf))

\* the filter reads f.properties.rank of every feature, the map reads
\* f.geometry.coordinates of every ranked one; either read throws on null
\* or undefined
loadRecommendations(raw) ==
    IF \E i \in DOMAIN raw.features : ~NotNullish(raw.features[i].properties)
        THEN TypeError
    ELSE LET ranked == SortByRank(Filter(raw.features, HasRank)) IN
         IF \E i \in DOMAIN ranked : ~HasCoordinates(ranked[i])
             THEN TypeError
             ELSE Arr(Map(ranked, RecommendationPointOf))

\* the object literal of the map callback of loadClusters
ClusterPointOf(f) ==
    [lat |-> At(f.geometry.coordinates.v, 1),
     lng |-> At(f.geometry.coordinates.v, 0),
     community_id |-> f.properties.community_id,
     is_existing |-> f.properties.is_existing]

loadClusters(raw) ==
    IF \E i \in DOMAIN raw.features :
            ~HasCoordinates(raw.features[i]) \/ ~NotNullish(raw.features[i].properties)
        THEN TypeError
        ELSE Arr(Map(raw.features, ClusterPointOf))

(* The recommendation and cluster collections tried *)

MaxRank == 3   \* largest rank tried

RecommendationProperties(site, weight, demandGain, gain, rank) ==
    Obj([site_id |-> site, node_weight |-> weight, marginal_demand_gain |-> demandGain,
         marginal_gain |-> gain, rank |-> rank, reasoning |-> Undefined])

\* ranked, ranked by the fallback gain field, tied rank, last rank, rank
\* null, and the empty property bag {}
RecommendationBags ==
    { RecommendationProperties(Str("REC_001"), Num(900), Num(5200), Undefined, Num(1)),
      RecommendationProperties(Str("REC_002"), Num(500), Undefined, Num(3100), Num(2)),
      RecommendationProperties(Str("REC_005"), Num(700), Num(1000), Num(4000), Num(1)),
      RecommendationProperties(Str("REC_006"), Num(100), Num(200), Undefined, Num(MaxRank)),
      RecommendationProperties(Str("REC_003"), Undefined, Undefined, Undefined, Null),
      RecommendationProperties(Undefined, Undefined, Undefined, Undefined, Undefined) }

ClusterProperties(community, isUnderserved, underserved, isExisting) ==
    Obj([community_id |-> community, is_underserved |-> isUnderserved,
         underserved |-> underserved, is_existing |-> isExisting])

ClusterBags ==
    { ClusterProperties(Num(3), Bool(TRUE), Undefined, Bool(FALSE)),
      ClusterProperties(Undefined, Undefined, Bool(TRUE), Bool(TRUE)),
      ClusterProperties(Str("c7"), Bool(FALSE), Bool(TRUE), Undefined),
      ClusterProperties(Undefined, Undefined, Undefined, Undefined) }

\* two-coordinate features, features with a broken geometry (absent, one
\* coordinate) and a two-coordinate feature whose properties are null
FeaturesOf(bags, bag) ==
    { [geometry |-> Geometry(Arr(c)), properties |-> p] :
        c \in {Downtown, SouthWest}, p \in bags }
    \cup { [geometry |-> g, properties |-> bag] :
             g \in {Undefined, Geometry(Arr(<<-977431>>))} }
    \cup NullPropertyFeatures

RecommendationFeatures ==
    FeaturesOf(RecommendationBags,
               RecommendationProperties(Str("REC_001"), Num(900), Num(5200), Undefined, Num(1)))

ClusterFeatures ==
    FeaturesOf(ClusterBags, ClusterProperties(Num(3), Bool(TRUE), Undefined, Bool(FALSE)))

IngestInputs ==
    [kind : {"stations"}, features : SeqsUpTo(FeaturePool, MaxFeatures)]
    \cup [kind : {"recommendations"}, features : SeqsUpTo(RecommendationFeatures, MaxFeatures)]
    \cup [kind : {"clusters"}, features : SeqsUpTo(ClusterFeatures, MaxFeatures)]

InitIngest ==
    /\ fn = "none"
    /\ args \in IngestInputs
    /\ ret = Pending
    /\ IdlePipeline
    /\ IdleUi

CallParseOcmFeatures ==
    /\ args.kind = "stations"
    /\ fn' = "parseOcmFeatures"
    /\ ret' = parseOcmFeatures([features |-> args.features])
    /\ UNCHANGED <<args, pipelineVars, uiVars>>

CallParseRecommendations ==
    /\ args.kind = "recommendations"
    /\ fn' = "parseRecommendations"
    /\ ret' = parseRecommendations([features |-> args.features])
    /\ UNCHANGED <<args, pipelineVars, uiVars>>

CallParseClusters ==
    /\ args.kind = "clusters"
    /\ fn' = "parseClusters"
    /\ ret' = parseClusters([features |-> args.features])
    /\ UNCHANGED <<args, pipelineVars, uiVars>>

CallLoadRecommendations ==
    /\ args.kind = "recommendations"
    /\ fn' = "loadRecommendations"
    /\ ret' = loadRecommendations([features |-> args.features])
    /\ UNCHANGED <<args, pipelineVars, uiVars>>

CallLoadClusters ==
    /\ args.kind = "clusters"
    /\ fn' = "loadClusters"
    /\ ret' = loadClusters([features |-> args.features])
    /\ UNCHANGED <<args, pipelineVars, uiVars>>

NextIngest ==
    \/ CallParseOcmFeatures
    \/ CallParseRecommendations
    \/ CallParseClusters
    \/ CallLoadRecommendations
    \/ CallLoadClusters

SpecIngest == InitIngest /\ [][NextIngest]_vars

\* every feature of the input has a property bag and a coordinate list
AllReadable ==
    \A i \in DOMAIN args.features :
        NotNullish(args.features[i].properties) /\ HasCoordinates(args.features[i])

\* the indices of the input features that carry a rank
RankedIndices ==
    {i \in DOMAIN args.features : NotNullish(args.features[i].properties.rank)}

\* the view entry the claim expects for input feature i
RankedEntry(i) ==
    LET f == args.features[i]
    IN [lat |-> At(f.geometry.coordinates.v, 1),
        lng |-> At(f.geometry.coordinates.v, 0),
        rank |-> f.properties.rank,
        site_id |-> f.properties.site_id,
        node_weight |-> f.properties.node_weight,
        marginal_gain |-> f.properties.marginal_demand_gain]

(* C15: the rank-ordered recommendation view of loadRecommendations holds
   exactly the recommendation features whose rank is non-null (each as often
   as it occurs in the file), in ascending rank order; no entry without a
   rank is in it.  Stated for files whose features all carry a property bag
   and a coordinate list. *)
RankedViewSortedAndExact ==
    (fn = "loadRecommendations" /\ AllReadable) =>
        /\ ret.t = "array"
        /\ Len(ret.v) = Cardinality(RankedIndices)
        /\ \A j \in DOMAIN ret.v :
              /\ NotNullish(ret.v[j].rank)
              /\ Cardinality({k \in DOMAIN ret.v : ret.v[k] = ret.v[j]})
                    = Cardinality({i \in RankedIndices : RankedEntry(i) = ret.v[j]})
        /\ \A j \in 1..(Len(ret.v) - 1) : ret.v[j].rank.v <= ret.v[j + 1].rank.v

\* a file listing a higher rank before a lower one has been loaded
RankedViewReordered ==
    /\ fn = "loadRecommendations"
    /\ AllReadable
    /\ ret.t = "array"
    /\ \E i, k \in RankedIndices :
          i < k /\ args.features[i].properties.rank.v > args.features[k].properties.rank.v

WebParserRan == fn \in {"parseOcmFeatures", "parseRecommendations", "parseClusters"}

AllTwoCoordinates == \A i \in DOMAIN args.features : HasTwoCoordinates(args.features[i])

AllBagsPresent == \A i \in DOMAIN args.features : NotNullish(args.features[i].properties)

\* record i of the result holds the documented default of every optional
\* field its feature lacks
DefaultsFilled(i) ==
    LET props == args.features[i].properties
        r == ret.v[i]
    IN CASE fn = "parseRecommendations" ->
              /\ ~NotNullish(props.site_id) => r.site_id = Str("")
              /\ ~NotNullish(props.node_weight) => r.node_weight = Num(0)
              /\ (~NotNullish(props.marginal_demand_gain) /\ ~NotNullish(props.marginal_gain))
                    => r.marginal_gain = Num(0)
              /\ ~NotNullish(props.rank) => r.rank = Undefined
         [] fn = "parseClusters" ->
              /\ ~NotNullish(props.community_id) => r.community_id = Num(0)
              /\ (~NotNullish(props.is_underserved) /\ ~NotNullish(props.underserved))
                    => r.is_underserved = Bool(FALSE)
         [] fn = "parseOcmFeatures" ->
              ~NotNullish(props.AddressInfo) =>
                  r.AddressInfo = [Title |-> Undefined, Town |-> Undefined,
                                   Latitude |-> args.features[i].geometry.coordinates.v[2],
                                   Longitude |-> args.features[i].geometry.coordinates.v[1]]

\* with a property bag on every feature the parsers do fill the defaults
OptionalFieldsDefaulted ==
    (WebParserRan /\ AllTwoCoordinates /\ AllBagsPresent) =>
        /\ ret.t = "array"
        /\ Len(ret.v) = Len(args.features)
        /\ \A i \in DOMAIN ret.v : DefaultsFilled(i)

(* C16: missing optional data never makes ingestion throw: for features with
   a valid two-coordinate geometry whose property bag is null or lacks
   optional fields, parseOcmFeatures, parseRecommendations and parseClusters
   return one record per feature, built from the documented defaults. *)
MissingDataNeverThrows ==
    (WebParserRan /\ AllTwoCoordinates) =>
        /\ ret.t = "array"
        /\ Len(ret.v) = Len(args.features)
        /\ \A i \in DOMAIN ret.v :
              NotNullish(args.features[i].properties) => DefaultsFilled(i)

\* the input features the web parsers keep, in order
KeptFeatures == SelectSeq(args.features, HasTwoCoordinates)

\* coordinates[i] as a JavaScript array read, 0-based
CoordinateAt(f, i) ==
    IF Len(f.geometry.coordinates.v) > i THEN Num(f.geometry.coordinates.v[i + 1])
    ELSE Undefined

(* C20: every parser reads latitude from coordinates[1] and longitude from
   coordinates[0]; in parseOcmFeatures the output AddressInfo.Latitude and
   AddressInfo.Longitude equal the geometry coordinates even when the
   AddressInfo of the property bag carries other values, and the other
   AddressInfo fields are kept. *)
LatitudeIsSecondCoordinate ==
    (ret.t = "array") =>
        /\ (fn \in {"parseRecommendations", "parseClusters"}) =>
              \A i \in DOMAIN ret.v :
                  /\ Num(ret.v[i].lat) = CoordinateAt(KeptFeatures[i], 1)
                  /\ Num(ret.v[i].lng) = CoordinateAt(KeptFeatures[i], 0)
        /\ (fn = "parseOcmFeatures") =>
              \A i \in DOMAIN ret.v :
                  LET info == KeptFeatures[i].properties.AddressInfo
                      out == ret.v[i].AddressInfo
                  IN /\ Num(out.Latitude) = CoordinateAt(KeptFeatures[i], 1)
                     /\ Num(out.Longitude) = CoordinateAt(KeptFeatures[i], 0)
                     /\ NotNullish(info) => (out.Title = info.Title /\ out.Town = info.Town)
        /\ (fn = "loadClusters") =>
              \A i \in DOMAIN ret.v :
                  /\ ret.v[i].lat = CoordinateAt(args.features[i], 1)
                  /\ ret.v[i].lng = CoordinateAt(args.features[i], 0)
        /\ (fn = "loadRecommendations") =>
              \A j \in DOMAIN ret.v :
                  \E i \in RankedIndices :
                      /\ ret.v[j].site_id = args.features[i].properties.site_id
                      /\ ret.v[j].rank = args.features[i].properties.rank
                      /\ ret.v[j].lat = CoordinateAt(args.features[i], 1)
                      /\ ret.v[j].lng = CoordinateAt(args.features[i], 0)

\* parseOcmFeatures returned a station whose property bag carried a latitude
\* other than that of its geometry
StaleAddressOverridden ==
    /\ fn = "parseOcmFeatures"
    /\ ret.t = "array"
    /\ \E i \in DOMAIN ret.v :
          LET info == KeptFeatures[i].properties.AddressInfo
          IN /\ NotNullish(info)
             /\ info.Latitude # KeptFeatures[i].geometry.coordinates.v[2]
             /\ ret.v[i].AddressInfo.Latitude = KeptFeatures[i].geometry.coordinates.v[2]
             /\ ret.v[i].AddressInfo.Title = Str("Downtown")

-----------------------------------------------------------------------------
(* web/lib/scoring.ts, the ratio variant (lines 1-50): status from
   utilization against 60 and 150, traffic from the capped demand sum *)

\* [clat, clng] of DEMAND_CENTERS, in input order
DEMAND_CENTERS ==
    << [lat |-> 302672, lng |-> -977431],   \* Downtown
       [lat |-> 302849, lng |-> -977341],   \* UT Campus
       [lat |-> 303600, lng |-> -977200],   \* The Domain
       [lat |-> 302900, lng |-> -976970],   \* Mueller
       [lat |-> 302200, lng |-> -977900],   \* South Congress
       [lat |-> 302500, lng |-> -977300],   \* East Riverside
       [lat |-> 303100, lng |-> -977500],   \* North Loop
       [lat |-> 302400, lng |-> -977650] >> \* Bouldin Creek

\* the loop of the ratio variant of simulateTrafficScore: the sum over
\* DEMAND_CENTERS of weight * Math.exp(-haversineKm(lat, lng, clat, clng) / 3)
ratio_demandSum(lat, lng) ==
    CASE lat = 302672 /\ lng = -977431 -> 2167
      [] lat = 302849 /\ lng = -977341 -> 2052
      [] lat = 303600 /\ lng = -977200 -> 962
      [] lat = 302900 /\ lng = -976970 -> 1413
      [] lat = 302200 /\ lng = -977900 -> 1056
      [] lat = 302500 /\ lng = -977300 -> 1702
      [] lat = 303100 /\ lng = -977500 -> 1362
      [] lat = 302400 /\ lng = -977650 -> 1404

\* Math.min(score, 1.0)
ratio_simulateTrafficScore(lat, lng) == Min(ratio_demandSum(lat, lng), Unit)

\* (trafficScore * 100) / chargerCount kept exact as numerator and
\* denominator, the numerator in thousandths of a percent
Ratio(trafficScore, chargerCount) == [n |-> trafficScore * 100, d |-> chargerCount]

\* utilization > percent; with d = 0 the quotient is Infinity, or NaN for 0 / 0
RatioGreater(utilization, percent) ==
    IF utilization.d = 0 THEN utilization.n > 0
    ELSE utilization.n > percent * Unit * utilization.d

ratio_scoreStation(station, trafficScore) ==
    LET chargerCount == deriveChargerCount(station)
        utilization == Ratio(trafficScore, chargerCount)
        status ==
            IF RatioGreater(utilization, 150) THEN "overloaded"
            ELSE IF RatioGreater(utilization, 60) THEN "balanced"
            ELSE "underutilized"
    IN station @@ [chargerCount |-> chargerCount, trafficScore |-> trafficScore,
                   utilization |-> utilization, status |-> status]

\* traffic scores passed to scoreStation: around both thresholds and the
\* values of the test file (2.0, 1.0, 0.3)
RatioTrafficScores == {0, 300, 590, 600, 610, Unit, 1500, 1510, 2 * Unit}

InitRatio ==
    /\ fn = "none"
    /\ args \in [station : StationInputs, trafficScore : RatioTrafficScores,
                  center : DOMAIN DEMAND_CENTERS]
    /\ ret = Pending
    /\ IdlePipeline
    /\ IdleUi

CallRatioScoreStation ==
    /\ fn' = "ratio_scoreStation"
    /\ ret' = ratio_scoreStation(args.station, args.trafficScore)
    /\ UNCHANGED <<args, pipelineVars, uiVars>>

\* the map callback of the GET handler of the ratio variant, for the station
\* placed at demand center args.center
ScoreStationAtCenter ==
    /\ fn' = "scoreStationAtCenter"
    /\ LET c == DEMAND_CENTERS[args.center]
           s == args.station @@ [AddressInfo |-> [Latitude |-> c.lat, Longitude |-> c.lng]]
           trafficScore ==
               ratio_simulateTrafficScore(s.AddressInfo.Latitude, s.AddressInfo.Longitude)
       IN ret' = ratio_scoreStation(s, trafficScore)
    /\ UNCHANGED <<args, pipelineVars, uiVars>>

NextRatio == CallRatioScoreStation \/ ScoreStationAtCenter

SpecRatio == InitRatio /\ [][NextRatio]_vars

(* C18: under the ratio rule scoreStation computes utilization =
   trafficScore * 100 / chargerCount and assigns overloaded when utilization
   > 150, balanced when 60 <= utilization <= 150 (both ends included) and
   underutilized when utilization < 60.  Stated for stations with at least
   one charger, where the quotient is a finite number. *)
RatioBandsInclusive ==
    (fn = "ratio_scoreStation" /\ ret.chargerCount >= 1) =>
        LET percent == ret.trafficScore * 100    \* utilization * chargerCount
            low == 60 * Unit * ret.chargerCount
            high == 150 * Unit * ret.chargerCount
        IN /\ ret.utilization = [n |-> args.trafficScore * 100, d |-> ret.chargerCount]
           /\ (percent > high) => ret.status = "overloaded"
           /\ (low <= percent /\ percent <= high) => ret.status = "balanced"
           /\ (percent < low) => ret.status = "underutilized"

\* the same with the lower end excluded, as the code has it
RatioBandsLowerEndExcluded ==
    (fn = "ratio_scoreStation" /\ ret.chargerCount >= 1) =>
        LET percent == ret.trafficScore * 100
            low == 60 * Unit * ret.chargerCount
            high == 150 * Unit * ret.chargerCount
        IN /\ (percent > high) => ret.status = "overloaded"
           /\ (low < percent /\ percent <= high) => ret.status = "balanced"
           /\ (percent <= low) => ret.status = "underutilized"

(* C19: with the ratio rule fed by simulateTrafficScore, a station placed
   exactly at one of the eight demand centers with the lowest charger count
   (1) is classified overloaded. *)
DemandCenterIsOverloaded ==
    (fn = "scoreStationAtCenter" /\ ret.chargerCount = 1) =>
        ret.status = "overloaded"

\* no station with at least one charger is ever overloaded by the handler
CappedTrafficNeverOverloads ==
    (fn = "scoreStationAtCenter" /\ ret.chargerCount >= 1) =>
        /\ ret.trafficScore <= Unit
        /\ ret.status # "overloaded"

-----------------------------------------------------------------------------
(* Normalized capacity and utilization over the dataset (route.ts,
   scoring.ts, theme.ts) *)

\* chargerCount / (maximum chargerCount of the dataset), 0 when that maximum
\* is 0
CapacityShare(chargerCount, counts) ==
    LET datasetMax == SeqMax(counts, 0)
    IN IF datasetMax = 0 THEN 0 ELSE (chargerCount * Unit) \div datasetMax

WebCounts == [i \in DOMAIN response.v |-> deriveChargerCount(response.v[i])]

VideoCounts == [i \in DOMAIN loaded.v |-> loaded.v[i].chargerCount]

(* C21: for every dataset whose charger counts are non-negative integers the
   normalized capacity that enters each station's score equals chargerCount
   divided by the maximum deriveChargerCount over the dataset (0 when that
   maximum is 0) and lies in [0, 1], in the web route and in the video
   loader alike. *)
NormalizedCapacityFromDatasetMax ==
    /\ (response.t = "array") =>
          \A i \in DOMAIN response.v :
              LET s == response.v[i]
                  share == CapacityShare(s.chargerCount, WebCounts)
              IN /\ 0 <= share /\ share <= Unit
                 /\ s.optimizationScore =
                        synthOptimizationScore(s.AddressInfo.Latitude, s.AddressInfo.Longitude,
                                               s.trafficScore, share)
    /\ (loaded.t = "array") =>
          \A i \in DOMAIN loaded.v :
              LET s == loaded.v[i]
                  share == CapacityShare(s.chargerCount, VideoCounts)
              IN /\ 0 <= share /\ share <= Unit
                 /\ s.optimizationScore =
                        video_synthOptimizationScore(s.lat, s.lng, s.trafficScore, share)

\* both paths scored a station whose capacity share lies strictly between 0
\* and 1
PartialCapacityScored ==
    /\ response.t = "array" /\ loaded.t = "array"
    /\ \E i \in DOMAIN response.v :
          LET share == CapacityShare(response.v[i].chargerCount, WebCounts)
          IN 0 < share /\ share < Unit
    /\ \E i \in DOMAIN loaded.v :
          LET share == CapacityShare(loaded.v[i].chargerCount, VideoCounts)
          IN 0 < share /\ share < Unit

-----------------------------------------------------------------------------
(* The video scenes that read the station cache: Overview.tsx,
   Congestion.tsx, ExpansionNodes.tsx over loadStations of theme.ts.  The
   constant each scene module calls `stations` is the cached array itself,
   so an operation of a scene yields, next to its result, the array as the
   operation leaves it. *)

\* lib/projections.ts, in units of 1e-4 degree and pixels
LAT_MIN == 301000
LAT_MAX == 305500
LNG_MIN == 0 - 979700
LNG_MAX == 0 - 975300
MAP_X == 0
MAP_Y == 0
MAP_W == 1344
MAP_H == 1080

\* x and y in whole pixels, rounded down
projectToScreen(lat, lng) ==
    [x |-> MAP_X + ((lng - LNG_MIN) * MAP_W) \div (LNG_MAX - LNG_MIN),
     y |-> MAP_Y + MAP_H - ((lat - LAT_MIN) * MAP_H) \div (LAT_MAX - LAT_MIN)]

\* Math.hypot(dx, dy) squared; the sort on dist orders by it alike
HypotSquared(dx, dy) == dx * dx + dy * dy

\* array.slice(0, n)
Take(s, n) == SubSeq(s, 1, Min(n, Len(s)))

\* loadStations(): what the call returns and what the cache holds after it
LoadResult(cache, raw) ==
    IF cache # Null THEN [returned |-> cache, cache |-> cache]
    ELSE LET computed == ComputeStations(raw)
         IN [returned |-> computed,
             cache |-> IF computed = TypeError THEN Null ELSE computed]

\* b.utilization - a.utilization < 0; Infinity - Infinity is NaN, which
\* the sort takes as 0
UtilizationAbove(a, b) ==
    IF a.utilization = Infinity THEN b.utilization # Infinity
    ELSE b.utilization # Infinity /\ a.utilization.v > b.utilization.v

RECURSIVE InsertByUtilization(_, _)
InsertByUtilization(x, s) ==
    IF s = <<>> THEN <<x>>
    ELSE IF UtilizationAbove(x, s[1]) THEN <<x>> \o s
    ELSE <<s[1]>> \o InsertByUtilization(x, Tail(s))

\* sort((a, b) => b.utilization - a.utilization), stable
RECURSIVE SortByUtilization(_)
SortByUtilization(s) ==
    IF s = <<>> THEN <<>>
    ELSE InsertByUtilization(s[Len(s)], SortByUtilization(SubSeq(s, 1, Len(s) - 1)))

\* stations.sort(...).slice(0, 15) without the copy [...stations]: the
\* sort reorders the cached array
congestedInPlace(stations) ==
    [stations |-> SortByUtilization(stations),
     congested |-> Take(SortByUtilization(stations), 15)]

\* Congestion.tsx: [...stations].sort(...).slice(0, 15)
congested(stations) ==
    LET copy == stations
    IN [stations |-> stations,
        congested |-> Take(SortByUtilization(copy), 15)]

\* theme.ts computeStats: reduce and filter read the array only
computeStats(stations) ==
    LET Count(status) == Cardinality({i \in DOMAIN stations : stations[i].status = status})
        n == Len(stations)
        finite == \A i \in DOMAIN stations : stations[i].utilization # Infinity
        utilSum == SeqSum([i \in DOMAIN stations |-> stations[i].utilization.v])
        Pct(k) == IF n = 0 THEN NaN ELSE Num(round((k * 100 * Unit) \div n))
    IN [stationCount |-> n,
        totalChargers |-> SeqSum([i \in DOMAIN stations |-> stations[i].chargerCount]),
        avgUtilization |-> IF n = 0 THEN NaN
                           ELSE IF ~finite THEN Infinity
                           ELSE Num(round(utilSum \div n)),
        overloaded |-> Count("overloaded"),
        balanced |-> Count("balanced"),
        underutilized |-> Count("underutilized"),
        overloadedPct |-> Pct(Count("overloaded")),
        balancedPct |-> Pct(Count("balanced")),
        underutilizedPct |-> Pct(Count("underutilized"))]

RECURSIVE InsertByDist(_, _)
InsertByDist(x, s) ==
    IF s = <<>> THEN <<x>>
    ELSE IF x.dist < s[1].dist THEN <<x>> \o s
    ELSE <<s[1]>> \o InsertByDist(x, Tail(s))

RECURSIVE SortByDist(_)
SortByDist(s) ==
    IF s = <<>> THEN <<>>
    ELSE InsertByDist(s[Len(s)], SortByDist(SubSeq(s, 1, Len(s) - 1)))

\* ExpansionNodes.tsx: stations.map(s => ({s, dist})).sort(...).slice(0, 3)
\* for the recommendation at rPos; map builds a new array
nearest(stations, r) ==
    LET rPos == projectToScreen(r.lat, r.lng)
        WithDist(s) ==
            LET pos == projectToScreen(s.lat.v, s.lng.v)
            IN [s |-> s, dist |-> HypotSquared(pos.x - rPos.x, pos.y - rPos.y)]
    IN [stations |-> stations,
        nearest |-> Take(SortByDist(Map(stations, WithDist)), 3)]

\* the collections the scenes are run on: every station has a latitude and a
\* longitude, or loadStations throws
SceneFeatures ==
    {f \in FeaturePool :
        (NotNullish(f.properties) /\ HasCoordinates(f)) => Len(f.geometry.coordinates.v) >= 2}

InitScenes ==
    /\ fn = "none"
    /\ args = <<>>
    /\ ret = Pending
    /\ ocmRaw \in [features : SeqsUpTo(SceneFeatures, MaxFeatures)]
    /\ response = Pending
    /\ stationsCache = Null
    /\ loaded = Pending
    /\ IdleUi

\* Overview.tsx: const stations = loadStations(); const stats = computeStats(stations)
OverviewModule ==
    /\ fn' = "Overview"
    /\ LET r == LoadResult(stationsCache, ocmRaw)
       IN /\ loaded' = r.returned
          /\ stationsCache' = r.cache
          /\ ret' = IF r.returned = TypeError THEN TypeError
                     ELSE computeStats(r.returned.v)
    /\ UNCHANGED <<args, ocmRaw, response, uiVars>>

\* Congestion.tsx: const stations = loadStations(); const congested = ...
CongestionModule ==
    /\ fn' = "Congestion"
    /\ LET r == LoadResult(stationsCache, ocmRaw)
       IN IF r.returned = TypeError
             THEN /\ loaded' = TypeError
                  /\ stationsCache' = r.cache
                  /\ ret' = TypeError
             ELSE LET c == congested(r.returned.v)
                  IN /\ loaded' = Arr(c.stations)
                     /\ stationsCache' = Arr(c.stations)
                     /\ ret' = Arr(c.congested)
    /\ UNCHANGED <<args, ocmRaw, response, uiVars>>

\* ExpansionNodes.tsx: const stations = loadStations()
ExpansionNodesModule ==
    /\ fn' = "ExpansionNodesModule"
    /\ LET r == LoadResult(stationsCache, ocmRaw)
       IN /\ loaded' = r.returned
          /\ stationsCache' = r.cache
          /\ ret' = IF r.returned = TypeError THEN TypeError ELSE Pending
    /\ UNCHANGED <<args, ocmRaw, response, uiVars>>

\* a frame of ExpansionNodes: the nearest stations of a recommendation; the
\* component renders only after its module has loaded the stations
ExpansionNodesRender ==
    /\ stationsCache # Null
    /\ loaded = stationsCache
    /\ \E c \in {Downtown, SouthWest} :
          LET n == nearest(stationsCache.v, [lat |-> c[2], lng |-> c[1]])
          IN /\ stationsCache' = Arr(n.stations)
             /\ loaded' = Arr(n.stations)
             /\ ret' = Arr(n.nearest)
    /\ fn' = "ExpansionNodes"
    /\ UNCHANGED <<args, ocmRaw, response, uiVars>>

NextScenes ==
    \/ loadStations
    \/ OverviewModule
    \/ CongestionModule
    \/ ExpansionNodesModule
    \/ ExpansionNodesRender

SpecScenes == InitScenes /\ [][NextScenes]_vars

(* C22: station records are immutable once computed: once loadStations has
   filled the cache, no later call, from any scene in any order, and no
   scene operation (sort, slice, filter) replaces or modifies the cached
   array, and every later call returns that same array. *)
CacheImmutable ==
    [][(stationsCache # Null) =>
           (stationsCache' = stationsCache /\ loaded' = stationsCache)]_vars

\* the Congestion scene ordered the stations otherwise than the cache holds
\* them
CongestedReordered ==
    /\ fn = "Congestion"
    /\ stationsCache # Null
    /\ ret.t = "array"
    /\ ret # stationsCache
    /\ loaded = stationsCache

-----------------------------------------------------------------------------
(* The band label of the popup against the status of the station *)

\* the popup label that names a status
LabelOfStatus(status) ==
    CASE status = "overloaded" -> "Overloaded"
      [] status = "balanced" -> "Balanced"
      [] status = "underutilized" -> "Underutilized"

(* C23: one banding rule for every consumer of the score: for every station
   on the web map the band label of its popup (from the percentile band of
   optimizationScore against p10 and p90) names the same band as the status
   of the station (from the 0.33 / 0.66 thresholds of scoreStation), which
   drives the marker-overloaded class. *)
BandLabelNamesStatus ==
    (fn = "renderStations") =>
        \A i \in DOMAIN ret.layers :
            ret.layers[i].bandLabel = LabelOfStatus(BandOf(args.stations[i]))

-----------------------------------------------------------------------------
(* The gradient of utilizationToColor *)

\* channel c is the integer nearest to the point at fraction t (thousandths)
\* between the channels from and to, and a byte
NearestToBlend(c, from, to, t) ==
    LET exact == from * Unit + (to - from) * t      \* thousandths of a step
        off == c * Unit - exact
    IN /\ c \in 0..255
       /\ 2 * off <= Unit
       /\ 2 * off > 0 - Unit

\* colour is what the three stops give at band position pos
OnGradient(colour, pos) ==
    LET from == hexToRgb(IF pos >= 500 THEN OPT_COLORS.mid ELSE OPT_COLORS.bad)
        to == hexToRgb(IF pos >= 500 THEN OPT_COLORS.good ELSE OPT_COLORS.mid)
        t == IF pos >= 500 THEN (pos - 500) * 2 ELSE pos * 2
        rgb == hexToRgb(colour)
    IN /\ Len(colour) = 7
       /\ colour[1] = "#"
       /\ \A k \in 2..7 : colour[k] \in {HexDigits[d] : d \in DOMAIN HexDigits}
       /\ NearestToBlend(rgb.r, from.r, to.r, t)
       /\ NearestToBlend(rgb.g, from.g, to.g, t)
       /\ NearestToBlend(rgb.b, from.b, to.b, t)
       /\ (pos = 0) => colour = <<"#", "f", "f", "3", "8", "6", "0">>
       /\ (pos = 500) => colour = <<"#", "f", "f", "b", "0", "2", "0">>
       /\ (pos = Unit) => colour = <<"#", "0", "0", "e", "6", "8", "a">>

PositionOf(v) == utilizationToScore(v, args.pLow, args.pMid, args.pHigh)

(* C24: the colour mapper is a 3-stop gradient over the band position: the
   bad stop #ff3860 at position 0, the mid stop #ffb020 at 0.5, the good
   stop #00e68a at 1, and at every position each RGB channel is the rounded
   linear interpolation between the two neighbouring stops, an integer in
   0..255; the result is a 7-character hex string. *)
ThreeStopGradient ==
    (fn = "utilizationToColor") =>
        /\ OnGradient(ret.a, PositionOf(args.a))
        /\ OnGradient(ret.b, PositionOf(args.b))

\* the mid stop and a blend between two stops have both been produced
MidStopAndBlend ==
    /\ fn = "utilizationToColor"
    /\ PositionOf(args.a) = 500
    /\ ret.a = OPT_COLORS.mid
    /\ PositionOf(args.b) \notin {0, 500, Unit}
    /\ ret.b \notin {OPT_COLORS.bad, OPT_COLORS.mid, OPT_COLORS.good}

-----------------------------------------------------------------------------
(* The composition: video/src/lib/theme.ts SCENES, Video.tsx DemoVideo,
   Root.tsx *)

\* SCENES with the closing scene starting one second late
SCENES_lateClosing ==
    [title      |-> [from |-> 0,    duration |-> 240],
     problem    |-> [from |-> 240,  duration |-> 360],
     overview   |-> [from |-> 600,  duration |-> 450],
     congestion |-> [from |-> 1050, duration |-> 450],
     graphOpt   |-> [from |-> 1500, duration |-> 450],
     expansion  |-> [from |-> 1950, duration |-> 450],
     runOpt     |-> [from |-> 2400, duration |-> 450],
     results    |-> [from |-> 2850, duration |-> 450],
     closing    |-> [from |-> 3330, duration |-> 300]]

SCENES ==
    [title      |-> [from |-> 0,    duration |-> 240],
     problem    |-> [from |-> 240,  duration |-> 360],
     overview   |-> [from |-> 600,  duration |-> 450],
     congestion |-> [from |-> 1050, duration |-> 450],
     graphOpt   |-> [from |-> 1500, duration |-> 450],
     expansion  |-> [from |-> 1950, duration |-> 450],
     runOpt     |-> [from |-> 2400, duration |-> 450],
     results    |-> [from |-> 2850, duration |-> 450],
     closing    |-> [from |-> 3300, duration |-> 300]]

\* the Series.Sequence children of DemoVideo, in order
DemoVideo ==
    <<"title", "problem", "overview", "congestion", "graphOpt", "expansion",
      "runOpt", "results", "closing">>

\* Root.tsx: <Composition durationInFrames={3600}>
durationInFrames == 3600

\* the frame at which <Series> mounts its k-th sequence: the sum of the
\* durationInFrames of the sequences before it
RECURSIVE SeriesOffset(_)
SeriesOffset(k) ==
    IF k = 1 THEN 0 ELSE SeriesOffset(k - 1) + SCENES[DemoVideo[k - 1]].duration

\* the scene <Series> shows at a frame; none past the last sequence
SceneShown(frame) ==
    IF \E k \in DOMAIN DemoVideo :
           SeriesOffset(k) <= frame /\ frame < SeriesOffset(k) + SCENES[DemoVideo[k]].duration
    THEN DemoVideo[CHOOSE k \in DOMAIN DemoVideo :
                       SeriesOffset(k) <= frame
                       /\ frame < SeriesOffset(k) + SCENES[DemoVideo[k]].duration]
    ELSE "none"

InitVideo ==
    /\ fn = "none"
    /\ args = [frame |-> 0]
    /\ ret = SceneShown(0)
    /\ IdlePipeline
    /\ IdleUi

\* the player renders the next frame of the composition
RenderFrame ==
    /\ args.frame + 1 < durationInFrames
    /\ fn' = "renderFrame"
    /\ args' = [frame |-> args.frame + 1]
    /\ ret' = SceneShown(args.frame + 1)
    /\ UNCHANGED <<pipelineVars, uiVars>>

NextVideo == RenderFrame

SpecVideo == InitVideo /\ [][NextVideo]_vars

\* the scenes whose [from, from + duration) holds the frame
ScenesCovering(frame) ==
    {k \in DOMAIN DemoVideo :
        /\ SCENES[DemoVideo[k]].from <= frame
        /\ frame < SCENES[DemoVideo[k]].from + SCENES[DemoVideo[k]].duration}

(* C25: the nine scenes tile the composition: each scene's from equals the
   sum of the durations of the scenes before it, in the order DemoVideo
   plays them, and the durations sum to the 3600 frames of the composition;
   every frame is covered by exactly one scene, the one being shown. *)
ScenesTileComposition ==
    /\ \A k \in DOMAIN DemoVideo : SCENES[DemoVideo[k]].from = SeriesOffset(k)
    /\ DOMAIN SCENES = {DemoVideo[k] : k \in DOMAIN DemoVideo}
    /\ SeqSum([k \in DOMAIN DemoVideo |-> SCENES[DemoVideo[k]].duration]) = durationInFrames
    /\ Cardinality(ScenesCovering(args.frame)) = 1
    /\ \A k \in ScenesCovering(args.frame) : DemoVideo[k] = ret

\* the first frame of the last scene has been rendered
ClosingSceneStarted ==
    /\ fn = "renderFrame"
    /\ args.frame = SCENES.closing.from
    /\ ret = "closing"

-----------------------------------------------------------------------------
(* The divisions of utilizationToScore in the marker effect *)

\* the end tests made strict, so that a value equal to an end falls through
\* to the ramps
DenominatorsReachedStrictEnds(utilization, p20, p50, p80) ==
    IF utilization < p20 THEN {}
    ELSE IF utilization > p80 THEN {}
    ELSE IF utilization <= p50 THEN {p50 - p20}
    ELSE {p80 - p50}

\* the denominators utilizationToScore divides by on its way to the return
DenominatorsReached(utilization, p20, p50, p80) ==
    IF utilization <= p20 THEN {}
    ELSE IF utilization >= p80 THEN {}
    ELSE IF utilization <= p50 THEN {p50 - p20}
    ELSE {p80 - p50}

StationDenominators(i) ==
    DenominatorsReached(args.stations[i], ret.bounds.p10, ret.bounds.p50, ret.bounds.p90)

(* C26: when MapView takes p10, p50 and p90 from the sorted scores of the
   stations in view and maps each of those scores through
   utilizationToScore, p10 <= p50 <= p90 holds and every division by
   (pMid - pLow) or (pHigh - pMid) that is reached has a strictly positive
   divisor, also for one station and for all scores equal. *)
NoDivisionByZero ==
    (fn = "renderStations") =>
        /\ ret.bounds.p10 <= ret.bounds.p50
        /\ ret.bounds.p50 <= ret.bounds.p90
        /\ \A i \in DOMAIN args.stations : \A d \in StationDenominators(i) : d > 0

\* a station strictly inside the bounds has been mapped through a division
DivisionReached ==
    /\ fn = "renderStations"
    /\ \E i \in DOMAIN args.stations : StationDenominators(i) # {}

(* ---------- finite utilization of the scored stations ---------- *)

\* the utilizations of a list of scored stations, or none when the call threw
UtilizationsOf(result) ==
    IF result \in {Pending, TypeError} THEN {}
    ELSE {result.v[i].utilization : i \in DOMAIN result.v}

(* C28: every station scored by the route (scoreStation) and by the video
   (loadStations) has a finite utilization: trafficScore * 100 is never
   divided by a charger count of zero, whatever station record ingestion
   accepted. *)
UtilizationAlwaysFinite ==
    \A u \in UtilizationsOf(response) \cup UtilizationsOf(loaded) :
        u \notin {Infinity, NaN}

(* ---------- web/app/page.tsx: Home ---------- *)

\* what JSON.parse hands the page for one scored station of the response:
\* the finite numbers the header reads survive NextResponse.json unchanged
PageStation(s) ==
    [optimizationScore |-> s.optimizationScore, chargerCount |-> s.chargerCount]

PageStations(body) == [i \in DOMAIN body.v |-> PageStation(body.v[i])]

\* stations.filter(s => s.optimizationScore <= p10).length
CountAtMost(stations, p) ==
    Cardinality({i \in DOMAIN stations : stations[i].optimizationScore <= p})

\* stations.filter(s => s.optimizationScore >= p90).length
CountAtLeast(stations, p) ==
    Cardinality({i \in DOMAIN stations : stations[i].optimizationScore >= p})

RECURSIVE TotalPoints(_)
TotalPoints(stations) ==
    IF stations = <<>> THEN 0
    ELSE stations[1].chargerCount + TotalPoints(Tail(stations))

\* the values the body of Home derives from stations on a render
Header(stations) ==
    LET scores == SortAscending([i \in DOMAIN stations |-> stations[i].optimizationScore])
        p10 == page_percentile(scores, 100)
        p90 == page_percentile(scores, 900)
        redCount == CountAtMost(stations, p10)
        greenCount == CountAtLeast(stations, p90)
    IN [p10 |-> p10, p90 |-> p90,
        redCount |-> redCount,
        greenCount |-> greenCount,
        yellowCount |-> Max(0, Len(stations) - redCount - greenCount),
        totalPoints |-> TotalPoints(stations)]

\* a catch handler that leaves the loading flag alone
catchHandlerKeepsLoading(h) == [h EXCEPT !.fetch = "rejected"]

\* .catch(() => setIsLoading(false))
catchHandler(h) == [h EXCEPT !.fetch = "rejected", !.isLoading = FALSE]

\* .then(data => { setStations(data); setTimeout(..., 600) })
thenHandler(h, data) ==
    [h EXCEPT !.fetch = "fulfilled", !.stations = data, !.timer = "armed"]

\* Home after its first render, the fetch of /api/stations in flight
Mounted ==
    [t |-> "mounted", isLoading |-> TRUE, stations |-> <<>>,
     fetch |-> "pending", timer |-> "idle"]

InitPage ==
    /\ fn = "none"
    /\ args = <<>>
    /\ ret = Pending
    /\ ocmRaw \in [features : SeqsUpTo(FeaturePool, MaxFeatures)]
    /\ response = Pending
    /\ stationsCache = Null
    /\ loaded = Pending
    /\ home = Mounted
    /\ mapView = Unmounted

\* the route answers the request of the page
ServeStations ==
    /\ home.fetch = "pending"
    /\ response = Pending
    /\ GET

\* fetch() resolves with the response r; r.json() is then pending
FetchResolves ==
    /\ home.fetch = "pending"
    /\ response # Pending
    /\ home' = [home EXCEPT !.fetch = "responded"]
    /\ UNCHANGED <<fn, pureVars, pipelineVars, mapView>>

\* fetch() rejects (the request fails): the catch handler runs
FetchRejects ==
    /\ home.fetch = "pending"
    /\ home' = catchHandler(home)
    /\ UNCHANGED <<fn, pureVars, pipelineVars, mapView>>

\* r.json() settles: the body of a handler that threw is not JSON and the
\* catch handler runs, otherwise the then handler receives the stations
JsonSettles ==
    /\ home.fetch = "responded"
    /\ home' = IF response = TypeError THEN catchHandler(home)
               ELSE thenHandler(home, PageStations(response))
    /\ UNCHANGED <<fn, pureVars, pipelineVars, mapView>>

\* the 600 ms timer: () => setIsLoading(false)
TimerFires ==
    /\ home.timer = "armed"
    /\ home' = [home EXCEPT !.timer = "fired", !.isLoading = FALSE]
    /\ UNCHANGED <<fn, pureVars, pipelineVars, mapView>>

NextPage ==
    \/ ServeStations
    \/ FetchResolves
    \/ FetchRejects
    \/ JsonSettles
    \/ TimerFires

SpecPage == InitPage /\ [][NextPage]_vars

\* the event loop runs every callback that is ready, and a request that is
\* in flight settles one way or the other: it resolves when the route has
\* answered and rejects otherwise (no fairness is asked of the route)
FairSpecPage ==
    /\ SpecPage
    /\ WF_vars(FetchResolves \/ FetchRejects)
    /\ WF_vars(JsonSettles)
    /\ WF_vars(TimerFires)

(* C27: the three band counters of the header partition the stations:
   redCount + yellowCount + greenCount equals stations.length for every
   station list, so no station is counted in two bands. *)
BandCountersPartition ==
    LET header == Header(home.stations)
    IN header.redCount + header.yellowCount + header.greenCount = Len(home.stations)

(* C30: the loading flag of the page always clears: starting from
   isLoading = true, whether the fetch of /api/stations succeeds (the
   stations are set, then the 600 ms timer clears the flag) or fails at the
   request or at JSON parsing (the catch handler clears it), isLoading
   eventually becomes false and stays false, it is never set back to true,
   and on success the stations are set before the loading screen is
   dismissed. *)
LoadingFlagClears ==
    /\ <>[](home.isLoading = FALSE)
    /\ [][home.isLoading = FALSE => home'.isLoading = FALSE]_vars
    /\ []((home.fetch = "fulfilled" /\ home.isLoading = FALSE)
              => (home.timer = "fired" /\ home.stations = PageStations(response)))

\* the success path has run to its end with stations on the page
LoadedThenDismissed ==
    /\ home.fetch = "fulfilled"
    /\ home.timer = "fired"
    /\ home.isLoading = FALSE
    /\ home.stations # <<>>

(* ---------- web/components/MapView.tsx: the effects and the map ---------- *)

MaxMarkers == 2   \* longest stations or recommendations list passed as a prop
MaxUpdates == 2   \* renders with changed props after the mount

\* the stations and recommendations a parent may pass, by identity
StationPool == {"s1", "s2"}
RecommendationPool == {"r1", "r2"}

LayersOf(layers) == {layers[i] : i \in DOMAIN layers}

\* a removal that leaves the layer on the map
removeLayerKeeps(onMap, l) == onMap

\* map.removeLayer(l)
removeLayer(onMap, l) == onMap \ {l}

\* layers.forEach(l => map.removeLayer(l))
RECURSIVE RemoveEach(_, _)
RemoveEach(onMap, layers) ==
    IF layers = <<>> THEN onMap
    ELSE RemoveEach(removeLayer(onMap, layers[1]), Tail(layers))

\* the identity of a newly constructed layer: an object distinct from every
\* layer that is on the map or still referenced
FreshId(used) == CHOOSE n \in 0..Cardinality(used) :
                    n \notin used /\ \A m \in 0..(n - 1) : m \in used

\* L.circleMarker(...) for each item in order, each added to the map
RECURSIVE CircleMarkers(_, _, _)
CircleMarkers(items, kind, used) ==
    IF items = <<>> THEN <<>>
    ELSE LET id == FreshId(used)
         IN <<[id |-> id, kind |-> kind, of |-> items[1]]>>
                \o CircleMarkers(Tail(items), kind, used \cup {id})

LiveIds(m) ==
    {l.id : l \in m.onMap \cup LayersOf(m.layersRef) \cup LayersOf(m.recLayers)}

\* the first effect: create the map unless mapRef already holds one
InitializeMap(m) == [m EXCEPT !.mapRef = TRUE]

\* the second effect: clear layersRef from the map, then one circle marker
\* per station, added to the map and pushed to layersRef
RenderStationMarkers(m) ==
    IF ~m.mapRef THEN m
    ELSE LET cleared == RemoveEach(m.onMap, m.layersRef)
             base == [m EXCEPT !.onMap = cleared, !.layersRef = <<>>]
             circles == CircleMarkers(m.stations, "station", LiveIds(base))
         IN [base EXCEPT !.onMap = cleared \cup LayersOf(circles),
                         !.layersRef = circles]

\* the third effect: one circle marker per recommendation, kept in the
\* recLayers its cleanup closes over
RenderRecommendationMarkers(m) ==
    IF ~m.mapRef THEN [m EXCEPT !.recLayers = <<>>]
    ELSE LET circles == CircleMarkers(m.recommendations, "recommendation", LiveIds(m))
         IN [m EXCEPT !.onMap = m.onMap \cup LayersOf(circles),
                      !.recLayers = circles]

\* the cleanup the third effect returned: recLayers.forEach(removeLayer)
CleanupRecommendationMarkers(m) ==
    [m EXCEPT !.onMap = RemoveEach(m.onMap, m.recLayers), !.recLayers = <<>>]

RunEffect(m, effect) ==
    IF effect = "init" THEN InitializeMap(m)
    ELSE IF effect = "stations" THEN RenderStationMarkers(m)
    ELSE IF effect = "recommendations" THEN RenderRecommendationMarkers(m)
    ELSE CleanupRecommendationMarkers(m)

\* the effects of the mount in declaration order; under StrictMode React
\* runs the cleanups and the effects a second time
MountEffects(strict) ==
    <<"init", "stations", "recommendations">>
        \o (IF strict THEN <<"cleanup", "init", "stations", "recommendations">>
            ELSE <<>>)

\* the effects of a render whose dependencies changed: cleanups first
UpdateEffects(stationsChanged, recommendationsChanged) ==
    IF recommendationsChanged THEN <<"cleanup", "stations", "recommendations">>
    ELSE IF stationsChanged THEN <<"stations">>
    ELSE <<>>

StationLists == SeqsUpTo(StationPool, MaxMarkers)
RecommendationLists == SeqsUpTo(RecommendationPool, MaxMarkers)

InitMap ==
    /\ fn = "none"
    /\ args = <<>>
    /\ ret = Pending
    /\ IdlePipeline
    /\ home = Unmounted
    /\ \E st \in StationLists, rc \in RecommendationLists, strict \in BOOLEAN :
          mapView = [t |-> "mounted", stations |-> st, recommendations |-> rc,
                     mapRef |-> FALSE, onMap |-> {}, layersRef |-> <<>>,
                     recLayers |-> <<>>, pending |-> MountEffects(strict),
                     renders |-> 0]

\* React runs the next pending effect of the commit
FlushEffect ==
    /\ mapView.pending # <<>>
    /\ mapView' = [RunEffect(mapView, Head(mapView.pending))
                      EXCEPT !.pending = Tail(mapView.pending)]
    /\ UNCHANGED <<fn, pureVars, pipelineVars, home>>

\* the parent renders MapView with a new stations array
UpdateStations ==
    /\ mapView.pending = <<>>
    /\ mapView.renders < MaxUpdates
    /\ \E st \in StationLists :
          mapView' = [mapView EXCEPT !.stations = st,
                                     !.pending = UpdateEffects(TRUE, FALSE),
                                     !.renders = @ + 1]
    /\ UNCHANGED <<fn, pureVars, pipelineVars, home>>

\* the parent renders MapView with a new recommendations array
UpdateRecommendations ==
    /\ mapView.pending = <<>>
    /\ mapView.renders < MaxUpdates
    /\ \E rc \in RecommendationLists :
          mapView' = [mapView EXCEPT !.recommendations = rc,
                                     !.pending = UpdateEffects(FALSE, TRUE),
                                     !.renders = @ + 1]
    /\ UNCHANGED <<fn, pureVars, pipelineVars, home>>

\* the parent renders MapView with both arrays new
UpdateBoth ==
    /\ mapView.pending = <<>>
    /\ mapView.renders < MaxUpdates
    /\ \E st \in StationLists, rc \in RecommendationLists :
          mapView' = [mapView EXCEPT !.stations = st,
                                     !.recommendations = rc,
                                     !.pending = UpdateEffects(TRUE, TRUE),
                                     !.renders = @ + 1]
    /\ UNCHANGED <<fn, pureVars, pipelineVars, home>>

NextMap == FlushEffect \/ UpdateStations \/ UpdateRecommendations \/ UpdateBoth

SpecMap == InitMap /\ [][NextMap]_vars

\* the layers of one kind that are on the map
OnMapOfKind(kind) == {l \in mapView.onMap : l.kind = kind}

\* layers holds one marker of the kind per item, in order, all distinct
OneMarkerPerItem(layers, items, kind) ==
    /\ Len(layers) = Len(items)
    /\ \A i \in DOMAIN layers : layers[i].kind = kind /\ layers[i].of = items[i]
    /\ \A i, j \in DOMAIN layers : layers[i].id = layers[j].id => i = j

(* C29: after any sequence of updates of the stations and recommendations
   props of MapView, once the effects have run the map holds exactly one
   station marker per station of the current list and exactly one
   recommendation marker per current recommendation; every marker added for
   an earlier list has been removed and layersRef holds exactly the station
   markers that are on the map. *)
MarkersFollowProps ==
    (mapView.pending = <<>>) =>
        /\ OneMarkerPerItem(mapView.layersRef, mapView.stations, "station")
        /\ OnMapOfKind("station") = LayersOf(mapView.layersRef)
        /\ OneMarkerPerItem(mapView.recLayers, mapView.recommendations, "recommendation")
        /\ OnMapOfKind("recommendation") = LayersOf(mapView.recLayers)

\* both lists were replaced by other non-empty lists and the effects have run
MarkersReplaced ==
    /\ mapView.pending = <<>>
    /\ mapView.renders = MaxUpdates
    /\ mapView.stations = <<"s2", "s1">>
    /\ mapView.recommendations = <<"r2">>
    /\ Cardinality(mapView.onMap) = 3

====
